---------------------------- MODULE Spec2Model ----------------------------
(***************************************************************************)
(* Hybrid retrieval of the PDF question-answering service: the             *)
(* contribution store and its moderation, the lexical contribution search, *)
(* the persisted vector index and its build, the vector search and the     *)
(* blending of both result sets.                                           *)
(*                                                                         *)
(* Texts are sequences of character codes: 0 is the blank, 1..26 are the   *)
(* letters a..z, 27 is a punctuation mark, 28 is the line feed and         *)
(* 101..126 are the capitals A..Z.  Similarities and qualities are exact   *)
(* fractions of SimUnit (Python computes them in floating point).  Ratings *)
(* are counted in tenths of a star.                                        *)
(***************************************************************************)
EXTENDS Integers, Sequences, FiniteSets, TLC

(***************************************************************************)
(* Text primitives (Python's str methods and the re module).               *)
(***************************************************************************)
Blank == 0

IsSpaceChar(c) == c \in {Blank, 28}

\* str.lower() on one character
Lower(c) == IF c \in 101..126 THEN c - 100 ELSE c

\* the class \w of the re module, for the characters of the model
IsWordChar(c) == Lower(c) \in 1..26

\* a in b, for two strings
IsSubstring(a, b) == \E i \in 0..(Len(b) - Len(a)) : SubSeq(b, i + 1, i + Len(a)) = a

\* str.strip()
Strip(s) ==
    IF \A i \in 1..Len(s) : IsSpaceChar(s[i]) THEN <<>>
    ELSE LET first == CHOOSE i \in 1..Len(s) :
                          ~IsSpaceChar(s[i]) /\ \A k \in 1..(i - 1) : IsSpaceChar(s[k])
             last  == CHOOSE i \in 1..Len(s) :
                          ~IsSpaceChar(s[i]) /\ \A k \in (i + 1)..Len(s) : IsSpaceChar(s[k])
         IN  SubSeq(s, first, last)

\* re.sub(r'\s+', ' ', s): every run of white space becomes one blank
CollapseSpaces(s) ==
    LET keep == {i \in 1..Len(s) : ~IsSpaceChar(s[i]) \/ i = 1 \/ ~IsSpaceChar(s[i - 1])}
        nth(k) == CHOOSE i \in keep : Cardinality({j \in keep : j < i}) = k - 1
    IN  [k \in 1..Cardinality(keep) |->
            IF IsSpaceChar(s[nth(k)]) THEN Blank ELSE s[nth(k)]]

\* the positions where a word of s begins, and where that word ends
WordStarts(s) == {i \in 1..Len(s) : ~IsSpaceChar(s[i]) /\ (i = 1 \/ IsSpaceChar(s[i - 1]))}

WordEnd(s, i) ==
    CHOOSE j \in i..Len(s) :
        /\ \A k \in i..j : ~IsSpaceChar(s[k])
        /\ (j = Len(s) \/ IsSpaceChar(s[j + 1]))

\* set(s.split()) and len(s.split())
WordSet(s) == {SubSeq(s, i, WordEnd(s, i)) : i \in WordStarts(s)}

WordCount(s) == Cardinality(WordStarts(s))

(***************************************************************************)
(* mongodb_utils: text normalisation, keywords and the lexical similarity. *)
(***************************************************************************)
\* re.sub(r'[^\w\s]', ' ', text.lower())
CleanText(text) ==
    [i \in 1..Len(text) |->
        IF IsWordChar(text[i]) THEN Lower(text[i])
        ELSE IF IsSpaceChar(text[i]) THEN text[i] ELSE Blank]

normalize_text(text) == Strip(CollapseSpaces(CleanText(text)))

\* the stop words that occur in the texts of the model: "the", "how", "to"
stop_words == {<<20, 8, 5>>, <<8, 15, 23>>, <<20, 15>>}

\* the keywords of a text (a set: the texts of the model hold fewer than 15)
extract_keywords(text) ==
    {w \in WordSet(CleanText(text)) : w \notin stop_words /\ Len(w) > 2}

\* one SimUnit-th is the unit of every similarity and quality score
SimUnit == 84000

\* 0.05, the acceptance threshold of both lexical strategies
SimThreshold == SimUnit \div 20

\* 0.5, the score given to a full-text match
TextIndexScore == SimUnit \div 2

Min(a, b) == IF a < b THEN a ELSE b

Max(a, b) == IF a > b THEN a ELSE b

phrase_similarity(text1, text2) ==
    IF WordCount(text1) > 1 /\ WordCount(text2) > 1
    THEN LET phrases1 == {SubSeq(text1, i + 1, i + Len(text2)) :
                              i \in 0..(Len(text1) - Len(text2))}
             phrases2 == {SubSeq(text2, i + 1, i + Len(text1)) :
                              i \in 0..(Len(text2) - Len(text1))}
         IN  IF IsSubstring(text1, text2) \/ IsSubstring(text2, text1)
             THEN SimUnit \div 2
             ELSE IF \E p \in phrases1 : Len(p) > 10 /\ IsSubstring(p, text2)
             THEN (3 * SimUnit) \div 10
             ELSE IF \E p \in phrases2 : Len(p) > 10 /\ IsSubstring(p, text1)
             THEN (3 * SimUnit) \div 10
             ELSE 0
    ELSE 0

calculate_text_similarity(text1, text2) ==
    IF text1 = <<>> \/ text2 = <<>> THEN 0
    ELSE LET words1 == WordSet(text1)
             words2 == WordSet(text2)
             union  == Cardinality(words1 \cup words2)
             jaccard_similarity == (SimUnit * Cardinality(words1 \cap words2)) \div union
             substring_matches ==
                 Cardinality({w1 \in words1 :
                     \E w2 \in words2 :
                         /\ Len(w1) > 3 /\ Len(w2) > 3
                         /\ (IsSubstring(w1, w2) \/ IsSubstring(w2, w1))})
             substring_similarity ==
                 (SimUnit * substring_matches)
                     \div Max(Cardinality(words1), Cardinality(words2))
             final_similarity ==
                 (6 * jaccard_similarity + 3 * substring_similarity
                      + phrase_similarity(text1, text2)) \div 10
         IN  Min(final_similarity, SimUnit)


(***************************************************************************)
(* The texts of the model.                                                 *)
(***************************************************************************)
txt_steam_milk == <<19, 20, 5, 1, 13, 0, 13, 9, 12, 11>>        \* "steam milk"
txt_steamer    == <<19, 20, 5, 1, 13, 5, 18>>                   \* "steamer"
txt_teas       == <<20, 5, 1, 19>>                              \* "teas"
txt_tea        == <<20, 5, 1>>                                  \* "tea"
txt_hot        == <<8, 15, 20>>                                 \* "hot"
txt_cup        == <<3, 21, 16>>                                 \* "cup"
txt_mug        == <<13, 21, 7>>                                 \* "mug"
txt_how_to     == <<8, 15, 23, 0, 20, 15>>                      \* "how to"

qry_steam_milk == <<119, 20, 5, 1, 13, 0, 0, 13, 9, 12, 11, 27>> \* "Steam  milk?"
qry_tea        == <<20, 5, 1>>                                  \* "tea"
qry_mark       == <<27>>                                        \* "?"

Queries == {qry_steam_milk, qry_tea, qry_mark}

\* queries that hold no word: "", three blanks, "???"
BlankQueries == {<<>>, <<0, 0, 0>>, <<27, 27, 27>>}

\* what users submit: question, answer and rating (in tenths of a star)
Templates ==
    << [question |-> txt_steam_milk, answer |-> txt_hot, rating |-> 30],
       [question |-> txt_steamer,    answer |-> txt_tea, rating |-> 45],
       [question |-> txt_teas,       answer |-> txt_hot, rating |-> 45],
       [question |-> txt_cup,        answer |-> txt_mug, rating |-> 50],
       [question |-> txt_how_to,     answer |-> txt_hot, rating |-> 40] >>

\* bounds of the model
MaxContrib == 3
MaxLimit == 3
MaxUsage == 1

\* the submissions to come, in the order users make them
Backlogs == {[i \in 1..MaxContrib |-> Templates[(i % Len(Templates)) + 1]]}

\* min_rating: both callers pass 0.0
MinRatings == {0}

ContribTexts ==
    {Templates[i].question : i \in 1..Len(Templates)} \cup
    {Templates[i].answer : i \in 1..Len(Templates)}

\* _calculate_text_similarity(normalized_query, _normalize_text(text)), tabulated
\* once for the texts of the model
SimilarityTable ==
    [query \in Queries \cup BlankQueries |->
        [text \in ContribTexts |->
            calculate_text_similarity(normalize_text(query), normalize_text(text))]]

\* lines 121-122: the keywords of the query found in "question answer"
keyword_matches(query_keywords, question, answer) ==
    Cardinality({k \in query_keywords :
        IsSubstring(k, normalize_text(question \o <<Blank>> \o answer))})

KeywordTable ==
    [query \in Queries \cup BlankQueries |->
        [i \in 1..Len(Templates) |->
            keyword_matches(extract_keywords(query),
                            Templates[i].question, Templates[i].answer)]]

KeywordCount == [query \in Queries \cup BlankQueries |-> Cardinality(extract_keywords(query))]

TemplateOf(contrib) ==
    CHOOSE i \in 1..Len(Templates) :
        Templates[i].question = contrib.question /\ Templates[i].answer = contrib.answer

(***************************************************************************)
(* State.                                                                  *)
(***************************************************************************)
VARIABLES
    contributions,  \* the user_contributions collection; a record's id is its position
    backlog,        \* the submissions still to come
    reply,          \* what the last call of the retrieval path returned
    searchers,      \* the calls of search_similar_contributions that run concurrently
    pdf_dir,        \* the files of the pdfs directory
    index_file,     \* indexes/faiss_index.bin
    meta_file,      \* indexes/metadata.json
    builder,        \* the run of manage.py embed_pdfs
    vsearch,        \* the call of search_similar_chunks that is under way
    requests,       \* the calls of enhanced_search_with_contributions so far
    call            \* the call of a function on its own: its arguments, then its value

vars == <<contributions, backlog, reply, searchers,
          pdf_dir, index_file, meta_file, builder, vsearch, requests, call>>

indexVars == <<pdf_dir, index_file, meta_file, builder, vsearch>>

storeVars == <<contributions, backlog, searchers>>

Ids == 1..Len(contributions)

NoReply == [op |-> "none"]

NoCall == [fn |-> "none"]

(***************************************************************************)
(* feedback_models.UserContribution                                        *)
(***************************************************************************)
\* the stop words of _extract_keywords that occur in the texts of the model:
\* "the", "how", "to"
keyword_stop_words == {<<20, 8, 5>>, <<8, 15, 23>>, <<20, 15>>}

\* the keywords of a question (a set: the texts of the model hold fewer than 10)
_extract_keywords(text) ==
    {w \in WordSet(CleanText(text)) : w \notin keyword_stop_words /\ Len(w) > 2}

\* md5 is taken as injective: the hash of a text is the one-element tuple of
\* the text it digests
_generate_question_hash(text) ==
    << CollapseSpaces([i \in 1..Len(Strip(text)) |-> Lower(Strip(text)[i])]) >>

\* the defaults of the two fields: an empty list, and no hash
NoKeywords == {}
NoHash == <<>>

\* save(): keywords and hash are filled in when they are empty, then every
\* field is written
save(contrib) ==
    LET keyworded == IF contrib.similarity_keywords = NoKeywords
                     THEN [contrib EXCEPT
                              !.similarity_keywords = _extract_keywords(contrib.question)]
                     ELSE contrib
    IN  IF keyworded.question_hash = NoHash
        THEN [keyworded EXCEPT
                 !.question_hash = _generate_question_hash(keyworded.question)]
        ELSE keyworded

\* UserContribution(...) followed by save(), as store_user_contribution does
UserContribution(question, answer, rating, is_approved) ==
    save([question |-> question, answer |-> answer, rating |-> rating,
          usage_count |-> 0, is_approved |-> is_approved,
          similarity_keywords |-> NoKeywords, question_hash |-> NoHash])

to_dict(id, contrib) ==
    [id |-> id, question |-> contrib.question, answer |-> contrib.answer,
     rating |-> contrib.rating, usage_count |-> contrib.usage_count,
     similarity_keywords |-> contrib.similarity_keywords,
     is_approved |-> contrib.is_approved]

\* an increment that writes the record anew, as a submission is written
increment_usage_AsNew(store, id, loaded) ==
    [store EXCEPT ![id] =
        [UserContribution(store[id].question, store[id].answer, store[id].rating,
                          "pending") EXCEPT !.usage_count = loaded + 1]]

\* usage_count += 1; save(): the count read when the record was loaded, plus one
increment_usage(store, id, loaded) ==
    [store EXCEPT ![id] = save([store[id] EXCEPT !.usage_count = loaded + 1])]

(***************************************************************************)
(* mongodb_utils.search_similar_contributions                              *)
(***************************************************************************)
\* UserContribution.objects(is_approved="approved", rating__gte=min_rating)
ApprovedIds(store, min_rating) ==
    {id \in 1..Len(store) :
        store[id].is_approved = "approved" /\ store[id].rating >= min_rating}

\* the key of order_by('-rating', '-usage_count'): a comes no later than b
RankedBefore(store, a, b) ==
    \/ store[a].rating > store[b].rating
    \/ /\ store[a].rating = store[b].rating
       /\ store[a].usage_count >= store[b].usage_count

\* the orders in which the store may enumerate the approved records: every
\* order that respects the sort key (the store breaks ties as it likes)
Enumerations(store, min_rating) ==
    LET S == ApprovedIds(store, min_rating)
        n == Cardinality(S)
    IN  {o \in [1..n -> S] :
            /\ \A i, j \in 1..n : i # j => o[i] # o[j]
            /\ \A i, j \in 1..n : i < j => RankedBefore(store, o[i], o[j])}

SeenIds(results) == {results[i].id : i \in 1..Len(results)}

\* a scan that goes through the whole enumeration
ScanIsFull_Never(results, limit) == FALSE

\* lines 84-85: the scan stops as soon as it holds limit results
ScanIsFull(results, limit) == Len(results) >= limit

\* strategy "question similarity": lines 83-108
RECURSIVE SimilarityScan(_, _, _, _, _, _)
SimilarityScan(store, order, i, query, limit, results) ==
    IF i > Len(order) \/ ScanIsFull(results, limit) THEN results
    ELSE LET id == order[i]
             question_similarity == SimilarityTable[query][store[id].question]
             answer_similarity   == SimilarityTable[query][store[id].answer]
             max_similarity      == Max(question_similarity, answer_similarity)
         IN  IF id \notin SeenIds(results) /\ max_similarity > SimThreshold
             THEN SimilarityScan(store, order, i + 1, query, limit,
                      Append(results,
                          to_dict(id, store[id]) @@
                              [similarity_score |-> max_similarity,
                               found_by |-> "similarity"]))
             ELSE SimilarityScan(store, order, i + 1, query, limit, results)

\* strategy "keyword matching": lines 112-134
RECURSIVE KeywordScan(_, _, _, _, _, _)
KeywordScan(store, order, i, query, limit, results) ==
    IF i > Len(order) \/ Len(results) >= limit THEN results
    ELSE LET id == order[i]
             matches == KeywordTable[query][TemplateOf(store[id])]
             keyword_similarity == (SimUnit * matches) \div KeywordCount[query]
         IN  IF /\ id \notin SeenIds(results)
                /\ matches > 0
                /\ keyword_similarity > SimThreshold
             THEN KeywordScan(store, order, i + 1, query, limit,
                      Append(results,
                          to_dict(id, store[id]) @@
                              [similarity_score |-> keyword_similarity,
                               found_by |-> "keyword"]))
             ELSE KeywordScan(store, order, i + 1, query, limit, results)

\* the filter of the full-text query: lines 140-145
TextQueryIds(store, min_rating) ==
    LET approved_count == Cardinality(ApprovedIds(store, min_rating))
        states == IF approved_count > 0 THEN {"approved"} ELSE {"approved", "pending"}
    IN  {id \in 1..Len(store) :
            store[id].is_approved \in states /\ store[id].rating >= min_rating}

\* the records of S listed by ascending id, or by descending id
RECURSIVE Listed(_, _)
Listed(S, ascending) ==
    IF S = {} THEN <<>>
    ELSE LET x == CHOOSE y \in S : \A z \in S : IF ascending THEN y <= z ELSE y >= z
         IN  <<x>> \o Listed(S \ {x}, ascending)

\* what the store's full-text search may answer: some records that pass the
\* filter, each once, at most `room` of them (.limit()); the model lists them
\* in one of two orders
TextAnswers(store, min_rating, room) ==
    {Listed(S, asc) :
        S \in {T \in SUBSET TextQueryIds(store, min_rating) : Cardinality(T) <= room},
        asc \in BOOLEAN}

\* the text strategy without its seen_ids test
RECURSIVE TextScan_NoSeenIds(_, _, _, _)
TextScan_NoSeenIds(store, text_results, i, results) ==
    IF i > Len(text_results) THEN results
    ELSE TextScan_NoSeenIds(store, text_results, i + 1,
             Append(results,
                 to_dict(text_results[i], store[text_results[i]]) @@
                     [similarity_score |-> TextIndexScore, found_by |-> "text_index"]))

\* strategy "text search": lines 151-159
RECURSIVE TextScan(_, _, _, _)
TextScan(store, text_results, i, results) ==
    IF i > Len(text_results) THEN results
    ELSE LET id == text_results[i]
         IN  IF id \notin SeenIds(results)
             THEN TextScan(store, text_results, i + 1,
                      Append(results,
                          to_dict(id, store[id]) @@
                              [similarity_score |-> TextIndexScore,
                               found_by |-> "text_index"]))
             ELSE TextScan(store, text_results, i + 1, results)

\* the key of results.sort(..., reverse=True): a sorts before b
SortsBefore(a, b) ==
    \/ a.similarity_score > b.similarity_score
    \/ /\ a.similarity_score = b.similarity_score
       /\ \/ a.rating > b.rating
          \/ a.rating = b.rating /\ a.usage_count > b.usage_count

\* the results left in the order the strategies found them
SortResults_Unsorted(results) == results

\* list.sort(key, reverse=True): stable, equal keys keep their order
RECURSIVE SortResults(_)
SortResults(results) ==
    IF Len(results) <= 1 THEN results
    ELSE LET n      == Len(results)
             sorted == SortResults(SubSeq(results, 1, n - 1))
             x      == results[n]
             k      == Cardinality({i \in 1..(n - 1) : ~SortsBefore(x, sorted[i])})
         IN  SubSeq(sorted, 1, k) \o <<x>> \o SubSeq(sorted, k + 1, n - 1)

\* the records the top results name get one more use: lines 167-173.  `failed`
\* holds the positions whose get() or save() raises; the loop goes on.
TopUsed == 3

\* the loop without its [:3]: every result is counted
RECURSIVE IncrementTop_EveryResult(_, _, _, _)
IncrementTop_EveryResult(store, results, i, failed) ==
    IF i > Len(results) THEN store
    ELSE IF i \in failed THEN IncrementTop_EveryResult(store, results, i + 1, failed)
    ELSE IncrementTop_EveryResult(
             increment_usage(store, results[i].id, store[results[i].id].usage_count),
             results, i + 1, failed)

\* the loop without its try: the first failure ends it
RECURSIVE IncrementTop_AbortOnFailure(_, _, _, _)
IncrementTop_AbortOnFailure(store, results, i, failed) ==
    IF i > Min(TopUsed, Len(results)) \/ i \in failed THEN store
    ELSE IncrementTop_AbortOnFailure(
             increment_usage(store, results[i].id, store[results[i].id].usage_count),
             results, i + 1, failed)

RECURSIVE IncrementTop(_, _, _, _)
IncrementTop(store, results, i, failed) ==
    IF i > Min(TopUsed, Len(results)) THEN store
    ELSE IF i \in failed THEN IncrementTop(store, results, i + 1, failed)
    ELSE IncrementTop(
             increment_usage(store, results[i].id, store[results[i].id].usage_count),
             results, i + 1, failed)

\* the increments that fail in one call: none, or the one at some position
FailureChoices(results) == {{}} \cup {{i} : i \in 1..Min(TopUsed, Len(results))}

\* results before the full-text strategy: lines 59-134
LexicalResults(store, query, limit, order) ==
    LET by_similarity == SimilarityScan(store, order, 1, query, limit, <<>>)
    IN  IF Len(by_similarity) < limit /\ KeywordCount[query] > 0
        THEN KeywordScan(store, order, 1, query, limit, by_similarity)
        ELSE by_similarity

\* lines 137-165: the full-text strategy, unless the store has no text index
\* (the query raises and is skipped), then the sort
RankedResults(lexical, store, limit, text) ==
    SortResults(IF Len(lexical) < limit /\ text.available
                THEN TextScan(store, text.answer, 1, lexical)
                ELSE lexical)

TextChoices(store, min_rating, room) ==
    {[available |-> FALSE, answer |-> <<>>]} \cup
    {[available |-> TRUE, answer |-> a] : a \in TextAnswers(store, min_rating, room)}

\* results[:limit]
Truncate(results, limit) == SubSeq(results, 1, Min(limit, Len(results)))

(***************************************************************************)
(* Actions on the contribution store.                                      *)
(***************************************************************************)
\* store_user_contribution: a new record, pending, never used
Submit ==
    /\ backlog # <<>>
    /\ contributions' = Append(contributions,
           UserContribution(Head(backlog).question, Head(backlog).answer,
                            Head(backlog).rating, "pending"))
    /\ backlog' = Tail(backlog)
    /\ reply' = NoReply
    /\ UNCHANGED <<searchers, indexVars, requests, call>>

\* a rejection that puts the record back in the queue
NewStatus_Requeue(action) == IF action = "approve" THEN "approved" ELSE "pending"

NewStatus(action) == IF action = "approve" THEN "approved" ELSE "rejected"

\* views.admin_approve_contribution, for a contribution that exists
Moderate(id, action) ==
    /\ contributions' = [contributions EXCEPT ![id].is_approved = NewStatus(action)]
    /\ reply' = NoReply
    /\ UNCHANGED <<backlog, searchers, indexVars, requests, call>>

\* views.admin_bulk_approve_contributions
BulkModerate(ids, action) ==
    /\ contributions' =
           [id \in Ids |->
               IF id \in ids
               THEN [contributions[id] EXCEPT !.is_approved = NewStatus(action)]
               ELSE contributions[id]]
    /\ reply' = NoReply
    /\ UNCHANGED <<backlog, searchers, indexVars, requests, call>>

\* mongodb_utils.approve_all_pending_contributions
ApproveAllPending ==
    /\ \E id \in Ids : contributions[id].is_approved = "pending"
    /\ contributions' =
           [id \in Ids |->
               IF contributions[id].is_approved = "pending"
               THEN [contributions[id] EXCEPT !.is_approved = "approved"]
               ELSE contributions[id]]
    /\ reply' = NoReply
    /\ UNCHANGED <<backlog, searchers, indexVars, requests, call>>

\* search_similar_contributions, one whole call
Search(query, limit, min_rating) ==
    \E order \in Enumerations(contributions, min_rating) :
        LET lexical == LexicalResults(contributions, query, limit, order)
        IN  \E text \in TextChoices(contributions, min_rating, limit - Len(lexical)) :
                LET results == RankedResults(lexical, contributions, limit, text)
                IN  \E failed \in FailureChoices(results) :
                        /\ \A i \in 1..Len(results) :
                               contributions[results[i].id].usage_count < MaxUsage
                        /\ contributions' =
                               IncrementTop(contributions, results, 1, failed)
                        /\ reply' = [op |-> "search", query |-> query, limit |-> limit,
                                     min_rating |-> min_rating,
                                     results |-> Truncate(results, limit),
                                     found |-> Len(results),
                                     increment_errors |-> failed]
                        /\ UNCHANGED <<backlog, searchers, indexVars, requests, call>>

\* search_similar_contributions when the store cannot be reached: lines 181-183
SearchOutage(query, limit, min_rating) ==
    /\ reply' = [op |-> "search", query |-> query, limit |-> limit,
                 min_rating |-> min_rating, results |-> <<>>,
                 found |-> 0, increment_errors |-> {}]
    /\ UNCHANGED <<contributions, backlog, searchers, indexVars, requests, call>>

(***************************************************************************)
(* utils and embed_pdfs: the documents, their chunks, the persisted index  *)
(* and the persisted metadata.  The embedding model is not part of the     *)
(* repository: the embedding of a text is the row tagged with that text,   *)
(* and the inner product of a query with a row is any of ScoreChoices.     *)
(***************************************************************************)
\* bounds: settings.CHUNK_SIZE and settings.CHUNK_OVERLAP, in characters
CHUNK_SIZE == 8
CHUNK_OVERLAP == 2

\* an overlap that is used as it was passed
EffectiveOverlap_AsPassed(chunk_size, overlap) == overlap

\* lines 82-84: an overlap as large as the chunk is replaced
EffectiveOverlap(chunk_size, overlap) ==
    IF overlap >= chunk_size THEN chunk_size \div 2 ELSE overlap

\* a window that begins where the last one ended
NextStart_AtEnd(start, end, overlap) == end

\* a window that begins one character after the last one began
NextStart_StepByOne(start, end, overlap) == start + 1

\* line 100: where the next window begins
NextStart(start, end, overlap) == Max(start + 1, end - overlap)

\* the loop of chunk_text from the window that begins at start (0-based)
RECURSIVE ChunkFrom(_, _, _, _)
ChunkFrom(text, start, chunk_size, overlap) ==
    LET end   == Min(start + chunk_size, Len(text))
        chunk == Strip(SubSeq(text, start + 1, end))
        here  == IF chunk # <<>> THEN <<chunk>> ELSE <<>>
    IN  IF start >= Len(text) THEN <<>>
        ELSE IF end >= Len(text) THEN here
        ELSE here \o ChunkFrom(text, NextStart(start, end, overlap), chunk_size, overlap)

chunk_text(text, chunk_size, overlap) ==
    IF Strip(text) = <<>> THEN <<>>
    ELSE ChunkFrom(text, 0, chunk_size, EffectiveOverlap(chunk_size, overlap))

\* the PDFs an administrator uploads, in the order of their upload; a PDF
\* that PdfReader cannot read makes extract_text_from_pdf raise
PdfUploads ==
    << [name |-> "c.pdf", readable |-> FALSE, text |-> <<>>],
       [name |-> "a.pdf", readable |-> TRUE,
        text |-> <<19, 20, 5, 1, 13, 0, 13, 9, 12, 11, 0, 8, 15, 20>>],  \* "steam milk hot"
       [name |-> "b.pdf", readable |-> TRUE, text |-> <<20, 5, 1, 28>>],  \* "tea\n"
       [name |-> "d.pdf", readable |-> TRUE, text |-> <<0, 28>>] >>        \* " \n"

\* bound: the PDFs that are uploaded
MaxPdfs == 3

\* os.listdir gives the files in any order
Listings(files) ==
    {order \in [1..Len(files) -> 1..Len(files)] :
        \A i, j \in 1..Len(files) : i # j => order[i] # order[j]}

\* extract_and_chunk_pdfs, lines 151-158: the metadata of one file's chunks
ChunkRecords(fname, chunks) ==
    [i \in 1..Len(chunks) |->
        [filename |-> fname, chunk_index |-> i - 1, text |-> chunks[i],
         char_count |-> Len(chunks[i])]]

\* extract_and_chunk_pdfs: the files in the order of the listing; a file that
\* cannot be read, holds no text or gives no chunk is passed over
RECURSIVE extract_and_chunk_pdfs(_, _, _)
extract_and_chunk_pdfs(files, order, i) ==
    IF i > Len(order) THEN <<>>
    ELSE LET file   == files[order[i]]
             chunks == chunk_text(file.text, CHUNK_SIZE, CHUNK_OVERLAP)
             mine   == IF ~file.readable \/ Strip(file.text) = <<>> \/ chunks = <<>>
                       THEN <<>>
                       ELSE ChunkRecords(file.name, chunks)
         IN  mine \o extract_and_chunk_pdfs(files, order, i + 1)

\* the row the model encodes a text to, and that row at unit length
Encoding(text) == [embeds |-> text, unit |-> FALSE]

Embedding(text) == [embeds |-> text, unit |-> TRUE]

\* utils.embed_texts: one row per text
embed_texts(texts) == [i \in 1..Len(texts) |-> Encoding(texts[i])]

\* utils.normalize: every row is brought to unit length
normalize(vecs) == [i \in 1..Len(vecs) |-> [vecs[i] EXCEPT !.unit = TRUE]]

\* bound: the --batch-size of the command
MaxBatch == 2

\* the rows of the batches docs[i:i + batch_size], one batch after the other
RECURSIVE BatchVectors(_, _, _)
BatchVectors(docs, i, batch_size) ==
    IF i > Len(docs) THEN <<>>
    ELSE embed_texts(SubSeq(docs, i, Min(i + batch_size - 1, Len(docs))))
             \o BatchVectors(docs, i + batch_size, batch_size)

\* the rows of the last batch only: the batches are not put together
RECURSIVE generate_embeddings_LastBatch(_, _)
generate_embeddings_LastBatch(docs, batch_size) ==
    IF Len(docs) <= batch_size THEN normalize(embed_texts(docs))
    ELSE generate_embeddings_LastBatch(SubSeq(docs, batch_size + 1, Len(docs)), batch_size)

\* generate_embeddings: the batches stacked, then normalized
generate_embeddings(docs, batch_size) == normalize(BatchVectors(docs, 1, batch_size))

\* the texts of the chunks, as extract_and_chunk_pdfs returns them in docs
DocsOf(metadata) == [i \in 1..Len(metadata) |-> metadata[i].text]

\* a file of the indexes directory: absent, or holding rows
NoFile == [exists |-> FALSE, rows |-> <<>>]

FileOf(rows) == [exists |-> TRUE, rows |-> rows]

\* process_pdfs, line 83: an index is there and the rebuild was not forced
ShouldSkip_Never(index_exists, force_rebuild) == FALSE

ShouldSkip(index_exists, force_rebuild) == index_exists /\ ~force_rebuild

IdleBuilder ==
    [pc |-> "idle", force |-> FALSE, index_existed |-> FALSE, metadata |-> <<>>,
     vectors |-> <<>>, batch_size |-> 0, outcome |-> "none"]

Finished(outcome) == [IdleBuilder EXCEPT !.outcome = outcome]

\* the lowest float, -3.4e38: IndexFlatIP fills the places it has no row for
\* with it; the model needs no more than a score below every inner product
FLT_LOWEST == -(4 * SimUnit)

\* the inner products of the model: 0.2 and 0.8
ScoreChoices == {SimUnit \div 5, (4 * SimUnit) \div 5}

\* similarity_threshold: float('-inf') or the lowest float (no threshold), the
\* default 0.0 of search_similar_chunks and the 0.3 that views.ask passes
Thresholds == {FLT_LOWEST, 0, (3 * SimUnit) \div 10}

\* bound: the k of a vector search
MaxK == 3

\* the orders in which IndexFlatIP can rank n rows (0-based ids), best first
Rankings(n, score) ==
    {rank \in [1..n -> 0..(n - 1)] :
        /\ \A i, j \in 1..n : i # j => rank[i] # rank[j]
        /\ \A i \in 1..(n - 1) : score[rank[i] + 1] >= score[rank[i + 1] + 1]}

\* index.search(query_embedding, k): the k best rows as (score, id); short of
\* k rows, the rest is (lowest float, -1)
IndexSearch(n, score, k) ==
    {[i \in 1..k |->
        IF i <= n THEN [score |-> score[rank[i] + 1], id |-> rank[i]]
        ELSE [score |-> FLT_LOWEST, id |-> -1]] : rank \in Rankings(n, score)}

\* list[idx] of Python: a negative idx counts from the end of the list
PyItem(list, idx) == IF idx >= 0 THEN list[idx + 1] ELSE list[Len(list) + idx + 1]

\* search_similar_chunks, lines 227-234: the pairs that pass, with the
\* metadata record each one reads
RECURSIVE ExtractChunks(_, _, _, _)
ExtractChunks(pairs, i, metadata, similarity_threshold) ==
    IF i > Len(pairs) THEN <<>>
    ELSE LET score == pairs[i].score
             idx   == pairs[i].id
             taken == IF idx < Len(metadata) /\ score >= similarity_threshold
                      THEN <<[idx |-> idx,
                              chunk |-> [filename |-> PyItem(metadata, idx).filename,
                                         chunk_index |-> PyItem(metadata, idx).chunk_index,
                                         text |-> PyItem(metadata, idx).text,
                                         char_count |-> PyItem(metadata, idx).char_count,
                                         similarity |-> score]]>>
                      ELSE <<>>
         IN  taken \o ExtractChunks(pairs, i + 1, metadata, similarity_threshold)

\* search_similar_chunks: what it returns for the index and the metadata it
\* loaded and the pairs the index gave; a key the code leaves out is "none"
VectorResult(success, error, message, taken) ==
    [success |-> success, error |-> error, message |-> message,
     chunks |-> [i \in 1..Len(taken) |-> taken[i].chunk],
     scores |-> [i \in 1..Len(taken) |-> taken[i].chunk.similarity],
     read |-> [i \in 1..Len(taken) |-> taken[i].idx]]

\* load_index raises, lines 153-154 and 256-263
IndexNotFound == VectorResult(FALSE, "Search error: FAISS index not found", "none", <<>>)

\* lines 206-213
NoIndexedDocuments == VectorResult(FALSE, "No indexed documents found", "none", <<>>)

\* a search that does not look whether the metadata are empty
search_similar_chunks_NoMetadataTest(metadata, pairs, similarity_threshold) ==
    LET taken == ExtractChunks(pairs, 1, metadata, similarity_threshold)
    IN  IF taken = <<>>
        THEN VectorResult(TRUE, "none", "No results found above similarity threshold", <<>>)
        ELSE VectorResult(TRUE, "none", "none", taken)

\* lines 204-254
search_similar_chunks(metadata, pairs, similarity_threshold) ==
    LET taken == ExtractChunks(pairs, 1, metadata, similarity_threshold)
    IN  IF metadata = <<>> THEN NoIndexedDocuments
        ELSE IF taken = <<>>
        THEN VectorResult(TRUE, "none", "No results found above similarity threshold", <<>>)
        ELSE VectorResult(TRUE, "none", "none", taken)

IdleVector == [pc |-> "idle", index |-> <<>>]

NothingIndexed ==
    /\ requests = 0
    /\ call = NoCall
    /\ pdf_dir = <<>>
    /\ index_file = NoFile
    /\ meta_file = NoFile
    /\ builder = IdleBuilder
    /\ vsearch = IdleVector

\* bound: the searches that run at the same time
NumSearchers == 2

Searchers == 1..NumSearchers

IdleSearcher ==
    [pc |-> "idle", results |-> <<>>, pos |-> 0, loaded |-> 0, saved |-> <<>>]

Init ==
    /\ contributions = <<>>
    /\ backlog \in Backlogs
    /\ reply = NoReply
    /\ searchers = [p \in Searchers |-> IdleSearcher]
    /\ NothingIndexed

Next ==
    \/ Submit
    \/ \E id \in Ids, action \in {"approve", "reject"} : Moderate(id, action)
    \/ \E ids \in SUBSET Ids, action \in {"approve", "reject"} :
           ids # {} /\ BulkModerate(ids, action)
    \/ ApproveAllPending
    \/ \E query \in Queries, limit \in 1..MaxLimit, min_rating \in MinRatings :
           Search(query, limit, min_rating)
    \/ \E query \in Queries, limit \in 1..MaxLimit, min_rating \in MinRatings :
           SearchOutage(query, limit, min_rating)

Spec == Init /\ [][Next]_vars

(***************************************************************************)
(* Concurrent calls of search_similar_contributions.  A call reads the     *)
(* store and ranks its results, then, for each of its top results, loads   *)
(* the record (objects.get), adds one to the count it loaded and saves it  *)
(* (save() writes the changed field with $set).                            *)
(***************************************************************************)
\* the store after every submission of the backlog was made and approved
ApprovedStore(log) ==
    [i \in 1..Len(log) |->
        UserContribution(log[i].question, log[i].answer, log[i].rating, "approved")]

TopCount(results) == Min(TopUsed, Len(results))

\* lines 59-165: the strategies and the sort
SearchBegin(p, query, limit, min_rating) ==
    /\ searchers[p].pc = "idle"
    /\ \E order \in Enumerations(contributions, min_rating) :
           LET lexical == LexicalResults(contributions, query, limit, order)
           IN  \E text \in TextChoices(contributions, min_rating, limit - Len(lexical)) :
                   LET results == RankedResults(lexical, contributions, limit, text)
                   IN  searchers' = [searchers EXCEPT ![p] =
                           [pc |-> IF results = <<>> THEN "return" ELSE "get",
                            results |-> Truncate(results, limit),
                            pos |-> 1, loaded |-> 0, saved |-> <<>>]]
    /\ UNCHANGED <<contributions, backlog, reply, indexVars, requests, call>>

\* line 170: contrib = UserContribution.objects.get(id=result['id'])
UsageGet(p) ==
    /\ searchers[p].pc = "get"
    /\ searchers' = [searchers EXCEPT
           ![p].loaded = contributions[searchers[p].results[searchers[p].pos].id].usage_count,
           ![p].pc = "save"]
    /\ UNCHANGED <<contributions, backlog, reply, indexVars, requests, call>>

AfterIncrement(me) ==
    IF me.pos >= TopCount(me.results) THEN "return" ELSE "get"

\* line 171: contrib.increment_usage()
UsageSave(p) ==
    LET me == searchers[p]
        id == me.results[me.pos].id
    IN  /\ me.pc = "save"
        /\ contributions' = increment_usage(contributions, id, me.loaded)
        /\ searchers' = [searchers EXCEPT
               ![p].saved = Append(me.saved, id),
               ![p].pos = me.pos + 1,
               ![p].pc = AfterIncrement(me)]
        /\ UNCHANGED <<backlog, reply, indexVars, requests, call>>

\* lines 172-173: the get or the save raises; the loop goes on
UsageFail(p) ==
    LET me == searchers[p]
    IN  /\ me.pc \in {"get", "save"}
        /\ searchers' = [searchers EXCEPT
               ![p].pos = me.pos + 1,
               ![p].pc = AfterIncrement(me)]
        /\ UNCHANGED <<contributions, backlog, reply, indexVars, requests, call>>

\* line 179
SearchReturn(p) ==
    /\ searchers[p].pc = "return"
    /\ searchers' = [searchers EXCEPT ![p].pc = "done"]
    /\ UNCHANGED <<contributions, backlog, reply, indexVars, requests, call>>

InitConc ==
    /\ \E log \in Backlogs : contributions = ApprovedStore(log)
    /\ backlog = <<>>
    /\ reply = NoReply
    /\ searchers = [p \in Searchers |-> IdleSearcher]
    /\ NothingIndexed

NextConc ==
    \E p \in Searchers :
        \/ \E query \in Queries, limit \in 1..MaxLimit, min_rating \in MinRatings :
               SearchBegin(p, query, limit, min_rating)
        \/ UsageGet(p)
        \/ UsageSave(p)
        \/ UsageFail(p)
        \/ SearchReturn(p)

SpecConc == InitConc /\ [][NextConc]_vars

(***************************************************************************)
(* The build of the index (manage.py embed_pdfs) and the vector search,    *)
(* step by step: both work on the two files of the indexes directory.      *)
(***************************************************************************)
\* views.admin_upload_pdf: the next PDF is written into the pdfs directory
Upload ==
    /\ Len(pdf_dir) < MaxPdfs
    /\ pdf_dir' = Append(pdf_dir, PdfUploads[Len(pdf_dir) + 1])
    /\ reply' = NoReply
    /\ UNCHANGED <<index_file, meta_file, builder, vsearch, storeVars, requests, call>>

\* a run that goes on to the embeddings although no chunk was extracted
BuildOutcome_EmptyAllowed(files, index_exists, force_rebuild, metadata) ==
    IF files = <<>> THEN "no_pdfs"
    ELSE IF ShouldSkip(index_exists, force_rebuild) THEN "skipped"
    ELSE "proceed"

\* process_pdfs, lines 66-99: how the run ends before the embeddings, or
\* that it goes on to them
BuildOutcome(files, index_exists, force_rebuild, metadata) ==
    IF files = <<>> THEN "no_pdfs"
    ELSE IF ShouldSkip(index_exists, force_rebuild) THEN "skipped"
    ELSE IF metadata = <<>> THEN "no_content"
    ELSE "proceed"

\* process_pdfs up to the embeddings, lines 63-104
BuildStart(force_rebuild, batch_size) ==
    /\ builder.pc = "idle"
    /\ \E order \in Listings(pdf_dir) :
           LET metadata == extract_and_chunk_pdfs(pdf_dir, order, 1)
               outcome  == BuildOutcome(pdf_dir, index_file.exists, force_rebuild,
                                        metadata)
           IN  builder' =
                   IF outcome # "proceed" THEN Finished(outcome)
                   ELSE [pc |-> "embedded", force |-> force_rebuild,
                         index_existed |-> index_file.exists, metadata |-> metadata,
                         vectors |-> generate_embeddings(DocsOf(metadata), batch_size),
                         batch_size |-> batch_size, outcome |-> "none"]
    /\ reply' = NoReply
    /\ UNCHANGED <<pdf_dir, index_file, meta_file, vsearch, storeVars, requests, call>>

\* build_and_save_index, line 234
BuildSaveIndex ==
    /\ builder.pc = "embedded"
    /\ index_file' = FileOf(builder.vectors)
    /\ builder' = [builder EXCEPT !.pc = "index_saved"]
    /\ reply' = NoReply
    /\ UNCHANGED <<pdf_dir, meta_file, vsearch, storeVars, requests, call>>

\* build_and_save_index, line 235
BuildSaveMetadata ==
    /\ builder.pc = "index_saved"
    /\ meta_file' = FileOf(builder.metadata)
    /\ builder' = [Finished("built") EXCEPT !.batch_size = builder.batch_size]
    /\ reply' = NoReply
    /\ UNCHANGED <<pdf_dir, index_file, vsearch, storeVars, requests, call>>

\* the write that is due raises, or the command is stopped: lines 242-244
BuildFail ==
    /\ builder.pc \in {"embedded", "index_saved"}
    /\ builder' = Finished("failed")
    /\ reply' = NoReply
    /\ UNCHANGED <<pdf_dir, index_file, meta_file, vsearch, storeVars, requests, call>>

\* search_similar_chunks, line 203
VectorLoadIndex ==
    /\ vsearch.pc = "idle"
    /\ IF index_file.exists
       THEN /\ vsearch' = [pc |-> "index_loaded", index |-> index_file.rows]
            /\ reply' = NoReply
       ELSE /\ reply' = [op |-> "vector", result |-> IndexNotFound, index |-> <<>>,
                         metadata |-> <<>>, pairs |-> <<>>, similarity_threshold |-> 0]
            /\ UNCHANGED vsearch
    /\ UNCHANGED <<pdf_dir, index_file, meta_file, builder, storeVars, requests, call>>

\* search_similar_chunks, lines 204-254; k and similarity_threshold are first
\* read here
VectorSearch(k, similarity_threshold) ==
    /\ vsearch.pc = "index_loaded"
    /\ \E score \in [1..Len(vsearch.index) -> ScoreChoices] :
           \E pairs \in IndexSearch(Len(vsearch.index), score, k) :
               reply' = [op |-> "vector",
                         result |-> search_similar_chunks(meta_file.rows, pairs,
                                                          similarity_threshold),
                         index |-> vsearch.index, metadata |-> meta_file.rows,
                         pairs |-> IF meta_file.rows = <<>> THEN <<>> ELSE pairs,
                         similarity_threshold |-> similarity_threshold]
    /\ vsearch' = IdleVector
    /\ UNCHANGED <<pdf_dir, index_file, meta_file, builder, storeVars, requests, call>>

InitIndex ==
    /\ contributions = <<>>
    /\ backlog = <<>>
    /\ reply = NoReply
    /\ searchers = [p \in Searchers |-> IdleSearcher]
    /\ NothingIndexed

NextIndex ==
    \/ Upload
    \/ \E force_rebuild \in BOOLEAN, batch_size \in 1..MaxBatch :
           BuildStart(force_rebuild, batch_size)
    \/ BuildSaveIndex
    \/ BuildSaveMetadata
    \/ BuildFail
    \/ VectorLoadIndex
    \/ \E k \in 1..MaxK, similarity_threshold \in Thresholds :
           VectorSearch(k, similarity_threshold)

SpecIndex == InitIndex /\ [][NextIndex]_vars

(***************************************************************************)
(* enhanced_search: the vector search and the contribution search of one   *)
(* request, and the blending of their results.  Qualities are exact        *)
(* fractions of QualityUnit.  A context is the sequence of its sections    *)
(* (joined by blank lines in the code); the empty string is <<>>.          *)
(***************************************************************************)
QualityUnit == 60 * SimUnit

RECURSIVE SeqSum(_)
SeqSum(numbers) == IF numbers = <<>> THEN 0 ELSE Head(numbers) + SeqSum(Tail(numbers))

\* the quality with a count bonus of one twenty-fifth for each chunk
assess_faiss_quality_SmallBonus(faiss_chunks) ==
    LET n == Len(faiss_chunks)
        avg_similarity ==
            (60 * SeqSum([i \in 1..n |-> faiss_chunks[i].similarity])) \div n
        count_bonus == Min((n * QualityUnit) \div 25, QualityUnit \div 5)
    IN  IF n = 0 THEN 0 ELSE Min(avg_similarity + count_bonus, QualityUnit)

\* _assess_faiss_quality
assess_faiss_quality(faiss_chunks) ==
    LET n == Len(faiss_chunks)
        avg_similarity ==
            (60 * SeqSum([i \in 1..n |-> faiss_chunks[i].similarity])) \div n
        count_bonus == Min((n * QualityUnit) \div 5, QualityUnit \div 5)
    IN  IF n = 0 THEN 0 ELSE Min(avg_similarity + count_bonus, QualityUnit)

\* the quality without its rating bonus
assess_mongodb_quality_NoRatingBonus(contributions_found) ==
    LET n == Len(contributions_found)
        avg_similarity ==
            (60 * SeqSum([i \in 1..n |-> contributions_found[i].similarity_score])) \div n
        count_bonus == Min((n * QualityUnit) \div 3, QualityUnit \div 5)
    IN  IF n = 0 THEN 0 ELSE Min(avg_similarity + count_bonus, QualityUnit)

\* _assess_mongodb_quality; ratings are in tenths of a star
assess_mongodb_quality(contributions_found) ==
    LET n == Len(contributions_found)
        avg_similarity ==
            (60 * SeqSum([i \in 1..n |-> contributions_found[i].similarity_score])) \div n
        rating_bonus ==
            (3 * (QualityUnit \div 500)
               * SeqSum([i \in 1..n |-> contributions_found[i].rating])) \div n
        count_bonus == Min((n * QualityUnit) \div 3, QualityUnit \div 5)
    IN  IF n = 0 THEN 0
        ELSE Min(avg_similarity + rating_bonus + count_bonus, QualityUnit)

\* format(x, '.2f') of a similarity: hundredths, rounded to the nearest
Hundredths(x) == (200 * x + SimUnit) \div (2 * SimUnit)

ContributionEntries(label, contributions_found) ==
    [i \in 1..Len(contributions_found) |->
        [label |-> label, number |-> i,
         question |-> contributions_found[i].question,
         answer |-> contributions_found[i].answer,
         rating |-> contributions_found[i].rating,
         similarity |-> Hundredths(contributions_found[i].similarity_score)]]

DocumentEntries(faiss_chunks) ==
    [i \in 1..Len(faiss_chunks) |->
        [label |-> "DOCUMENT", number |-> i,
         filename |-> faiss_chunks[i].filename, text |-> faiss_chunks[i].text,
         similarity |-> Hundredths(faiss_chunks[i].similarity)]]

Section(heading, entries) == [heading |-> heading, entries |-> entries]

\* the standard rendering with its two blocks in the other order
create_combined_context_DocumentsFirst(faiss_chunks, contributions_found) ==
    (IF faiss_chunks # <<>>
     THEN <<Section("ORIGINAL KNOWLEDGE BASE:", DocumentEntries(faiss_chunks))>>
     ELSE <<>>)
    \o (IF contributions_found # <<>>
        THEN <<Section("USER CONTRIBUTIONS AND ENHANCEMENTS:",
                       ContributionEntries("USER CONTRIBUTION", contributions_found))>>
        ELSE <<>>)

\* _create_combined_context
create_combined_context(faiss_chunks, contributions_found) ==
    (IF contributions_found # <<>>
     THEN <<Section("USER CONTRIBUTIONS AND ENHANCEMENTS:",
                    ContributionEntries("USER CONTRIBUTION", contributions_found))>>
     ELSE <<>>)
    \o (IF faiss_chunks # <<>>
        THEN <<Section("ORIGINAL KNOWLEDGE BASE:", DocumentEntries(faiss_chunks))>>
        ELSE <<>>)

\* _create_prioritized_context, called with prioritize_mongodb=True
create_prioritized_context(contributions_found, faiss_chunks) ==
    IF contributions_found # <<>>
    THEN <<Section("USER CONTRIBUTIONS (PRIORITIZED):",
                   ContributionEntries("HIGHLY RELEVANT USER CONTRIBUTION",
                                       contributions_found))>>
         \o (IF faiss_chunks # <<>>
             THEN <<Section("SUPPLEMENTARY DOCUMENTATION:", DocumentEntries(faiss_chunks))>>
             ELSE <<>>)
    ELSE create_combined_context(faiss_chunks, contributions_found)

\* the test without its comparison of the qualities: the list alone decides
AndList_ListOnly(a, list) == [is_list |-> TRUE, list |-> list]

\* `a and b` of Python for a truth value a and a list b: b when a holds,
\* else False
AndList(a, list) ==
    IF a THEN [is_list |-> TRUE, list |-> list] ELSE [is_list |-> FALSE, list |-> <<>>]

Truthy(value) == value.is_list /\ value.list # <<>>

\* lines 42 and 64-100
Blend(faiss_result, contribution_results) ==
    LET faiss_chunks    == IF faiss_result.success THEN faiss_result.chunks ELSE <<>>
        faiss_quality   == assess_faiss_quality(faiss_chunks)
        mongodb_quality == assess_mongodb_quality(contribution_results)
        prioritized     == AndList(mongodb_quality > faiss_quality, contribution_results)
    IN  [op |-> "enhanced",
         success |-> TRUE,
         faiss_results |-> faiss_chunks,
         contribution_results |-> contribution_results,
         combined_context |->
             IF Truthy(prioritized)
             THEN create_prioritized_context(contribution_results, faiss_chunks)
             ELSE create_combined_context(faiss_chunks, contribution_results),
         search_metadata |->
             [faiss_count |-> Len(faiss_chunks),
              contribution_count |-> Len(contribution_results),
              search_time |-> 0,
              has_contributions |-> Len(contribution_results) > 0,
              total_sources |-> Len(faiss_chunks) + Len(contribution_results),
              faiss_quality |-> faiss_quality,
              mongodb_quality |-> mongodb_quality,
              prioritized_mongodb |-> prioritized],
         original_faiss_result |-> faiss_result]

\* a load_index that answers an index without rows when the file is missing
VectorOutcomes_NoLoadError(index, meta, k, similarity_threshold) ==
    {search_similar_chunks(meta.rows, pairs, similarity_threshold) :
        pairs \in UNION {IndexSearch(Len(index.rows), score, k) :
                            score \in [1..Len(index.rows) -> ScoreChoices]}}

\* search_similar_chunks, one whole call on the files as they are
VectorOutcomes(index, meta, k, similarity_threshold) ==
    IF ~index.exists THEN {IndexNotFound}
    ELSE {search_similar_chunks(meta.rows, pairs, similarity_threshold) :
             pairs \in UNION {IndexSearch(Len(index.rows), score, k) :
                                 score \in [1..Len(index.rows) -> ScoreChoices]}}

\* bound: the requests of one behaviour
MaxRequests == 1

\* enhanced_search_with_contributions, one whole call
EnhancedSearch(query, k, similarity_threshold, contribution_limit) ==
    /\ requests < MaxRequests
    /\ \E faiss_result \in VectorOutcomes(index_file, meta_file, k, similarity_threshold),
          order \in Enumerations(contributions, 0) :
           LET lexical == LexicalResults(contributions, query, contribution_limit, order)
           IN  \E text \in TextChoices(contributions, 0,
                                       contribution_limit - Len(lexical)) :
                   LET results == RankedResults(lexical, contributions,
                                                contribution_limit, text)
                   IN  \E failed \in FailureChoices(results) :
                           /\ \A i \in 1..Len(results) :
                                  contributions[results[i].id].usage_count < MaxUsage
                           /\ contributions' =
                                  IncrementTop(contributions, results, 1, failed)
                           /\ reply' = Blend(faiss_result,
                                             Truncate(results, contribution_limit))
    /\ requests' = requests + 1
    /\ UNCHANGED <<backlog, searchers, indexVars, call>>

\* a failure of the store that reaches the except of lines 102-115
OutageReply_Raised(faiss_result) ==
    [op |-> "enhanced", success |-> FALSE, faiss_results |-> <<>>,
     contribution_results |-> <<>>, combined_context |-> <<>>,
     search_metadata |-> [faiss_count |-> 0, contribution_count |-> 0, search_time |-> 0],
     original_faiss_result |-> faiss_result]

\* search_similar_contributions catches the failure and returns [] (lines
\* 181-183), so line 49 goes on with an empty list
OutageReply(faiss_result) == Blend(faiss_result, <<>>)

\* the same call when the contribution store cannot be reached
EnhancedSearchOutage(query, k, similarity_threshold) ==
    /\ requests < MaxRequests
    /\ \E faiss_result \in VectorOutcomes(index_file, meta_file, k, similarity_threshold) :
           reply' = OutageReply(faiss_result)
    /\ requests' = requests + 1
    /\ UNCHANGED <<contributions, backlog, searchers, indexVars, call>>

\* the stores moderation can leave behind
RetrieveStores ==
    UNION {{[i \in 1..n |->
                UserContribution(log[i].question, log[i].answer, log[i].rating,
                                 status[i])] :
               status \in [1..n -> {"pending", "approved", "rejected"}]} :
           n \in 0..MaxContrib, log \in Backlogs}

\* the files a build of the first n uploads leaves behind
BuiltFrom(n) ==
    extract_and_chunk_pdfs(SubSeq(PdfUploads, 1, n), [i \in 1..n |-> i], 1)

\* nothing built; a finished build; an index file without its metadata file
PersistedChoices ==
    {[index |-> NoFile, meta |-> NoFile],
     [index |-> FileOf(generate_embeddings(DocsOf(BuiltFrom(MaxPdfs)), MaxBatch)),
      meta |-> FileOf(BuiltFrom(MaxPdfs))],
     [index |-> FileOf(generate_embeddings(DocsOf(BuiltFrom(MaxPdfs)), MaxBatch)), meta |-> NoFile]}

InitRetrieve ==
    /\ contributions \in RetrieveStores
    /\ backlog = <<>>
    /\ reply = NoReply
    /\ searchers = [p \in Searchers |-> IdleSearcher]
    /\ pdf_dir = SubSeq(PdfUploads, 1, MaxPdfs)
    /\ \E files \in PersistedChoices :
           index_file = files.index /\ meta_file = files.meta
    /\ builder = IdleBuilder
    /\ vsearch = IdleVector
    /\ requests = 0
    /\ call = NoCall

NextRetrieve ==
    \/ \E query \in Queries, k \in 1..MaxK, similarity_threshold \in Thresholds,
          contribution_limit \in 1..MaxLimit :
           EnhancedSearch(query, k, similarity_threshold, contribution_limit)
    \/ \E query \in Queries, k \in 1..MaxK, similarity_threshold \in Thresholds :
           EnhancedSearchOutage(query, k, similarity_threshold)

SpecRetrieve == InitRetrieve /\ [][NextRetrieve]_vars

(***************************************************************************)
(* Searches run one at a time over a store that holds one record of every  *)
(* template, so that a search can find more records than the three whose   *)
(* use it counts; the searches come through either entry point.            *)
(***************************************************************************)
\* the stores moderation can leave behind when every template was submitted
UsageStores ==
    {[i \in 1..Len(Templates) |->
         UserContribution(Templates[i].question, Templates[i].answer,
                          Templates[i].rating, status[i])] :
        status \in [1..Len(Templates) -> {"pending", "approved", "rejected"}]}

InitUsage ==
    /\ contributions \in UsageStores
    /\ backlog = <<>>
    /\ reply = NoReply
    /\ searchers = [p \in Searchers |-> IdleSearcher]
    /\ NothingIndexed

\* one search of each store: a second one would start from the counts the
\* first one left, which MaxUsage caps
NextUsage ==
    \/ /\ reply = NoReply
       /\ \E query \in Queries, limit \in 1..Len(Templates), min_rating \in MinRatings :
              Search(query, limit, min_rating)
    \/ /\ reply = NoReply
       /\ \E query \in Queries, limit \in 1..Len(Templates), min_rating \in MinRatings :
              SearchOutage(query, limit, min_rating)
    \/ /\ reply = NoReply
       /\ \E query \in Queries, contribution_limit \in 1..Len(Templates) :
              EnhancedSearch(query, MaxK, 0, contribution_limit)

SpecUsage == InitUsage /\ [][NextUsage]_vars

(***************************************************************************)
(* The two quality scores, each called on its own on a list of results.    *)
(***************************************************************************)
\* bounds: the longest list of chunks and of contributions that is scored
MaxChunks == 3
MaxFound == 2

\* 0.2, 0.6 and 0.8: the similarities of the scored chunks
ChunkSimilarities == {SimUnit \div 5, (3 * SimUnit) \div 5, (4 * SimUnit) \div 5}

ChunkLists ==
    UNION {[1..n -> {[similarity |-> x] : x \in ChunkSimilarities}] : n \in 0..MaxChunks}

\* 0.2 and 0.7: the similarities of the scored contributions; their ratings
\* are those of the templates, and no rating
FoundSimilarities == {SimUnit \div 5, (7 * SimUnit) \div 10}

FoundRatings == {0} \cup {Templates[i].rating : i \in 1..Len(Templates)}

FoundLists ==
    UNION {[1..n -> {[similarity_score |-> x, rating |-> r] :
                        x \in FoundSimilarities, r \in FoundRatings}] :
           n \in 0..MaxFound}

\* the call is made: its value is kept next to its arguments
AssessFaissQuality ==
    /\ call.fn = "_assess_faiss_quality"
    /\ ~call.done
    /\ call' = [fn |-> call.fn, args |-> call.args, done |-> TRUE,
                value |-> assess_faiss_quality(call.args)]
    /\ UNCHANGED <<storeVars, reply, indexVars, requests>>

AssessMongodbQuality ==
    /\ call.fn = "_assess_mongodb_quality"
    /\ ~call.done
    /\ call' = [fn |-> call.fn, args |-> call.args, done |-> TRUE,
                value |-> assess_mongodb_quality(call.args)]
    /\ UNCHANGED <<storeVars, reply, indexVars, requests>>

InitQuality ==
    /\ contributions = <<>>
    /\ backlog = <<>>
    /\ reply = NoReply
    /\ searchers = [p \in Searchers |-> IdleSearcher]
    /\ pdf_dir = <<>>
    /\ index_file = NoFile
    /\ meta_file = NoFile
    /\ builder = IdleBuilder
    /\ vsearch = IdleVector
    /\ requests = 0
    /\ call \in {[fn |-> "_assess_faiss_quality", args |-> a, done |-> FALSE] :
                    a \in ChunkLists}
               \cup {[fn |-> "_assess_mongodb_quality", args |-> a, done |-> FALSE] :
                        a \in FoundLists}

NextQuality ==
    \/ AssessFaissQuality
    \/ AssessMongodbQuality

SpecQuality == InitQuality /\ [][NextQuality]_vars

(***************************************************************************)
(* The lexical similarity called on its own on two normalized texts.       *)
(***************************************************************************)
txt_steam_milk_hot     == txt_steam_milk \o <<Blank>> \o txt_hot     \* "steam milk hot"
txt_hot_steam_milk_tea == txt_hot \o <<Blank>> \o txt_steam_milk \o <<Blank>> \o txt_tea
txt_tea_steam_milk_hot == txt_tea \o <<Blank>> \o txt_steam_milk \o <<Blank>> \o txt_hot

\* the normalized texts that are compared
ComparedTexts ==
    {txt_steam_milk, txt_steamer, txt_tea, txt_hot, txt_how_to,
     txt_steam_milk_hot, txt_hot_steam_milk_tea, txt_tea_steam_milk_hot}

\* the call is made: its value and the phrase component that went into it
CalculateTextSimilarity ==
    /\ call.fn = "_calculate_text_similarity"
    /\ ~call.done
    /\ call' = [fn |-> call.fn, args |-> call.args, done |-> TRUE,
                value |-> calculate_text_similarity(call.args[1], call.args[2]),
                phrase_similarity |-> phrase_similarity(call.args[1], call.args[2])]
    /\ UNCHANGED <<storeVars, reply, indexVars, requests>>

InitSimilarity ==
    /\ contributions = <<>>
    /\ backlog = <<>>
    /\ reply = NoReply
    /\ searchers = [p \in Searchers |-> IdleSearcher]
    /\ pdf_dir = <<>>
    /\ index_file = NoFile
    /\ meta_file = NoFile
    /\ builder = IdleBuilder
    /\ vsearch = IdleVector
    /\ requests = 0
    /\ call \in {[fn |-> "_calculate_text_similarity", args |-> <<a, b>>, done |-> FALSE] :
                    a \in ComparedTexts, b \in ComparedTexts}

NextSimilarity == CalculateTextSimilarity

SpecSimilarity == InitSimilarity /\ [][NextSimilarity]_vars

(***************************************************************************)
(* chunk_text on its own, one window of its loop at a time.                *)
(***************************************************************************)
\* bounds: the arguments of the call
MaxTextLen == 4
MaxChunkSize == 4
MaxOverlap == 5

\* the texts that are chunked: the texts of the uploads, and every text of
\* blanks and letters up to MaxTextLen characters
ChunkedTexts ==
    {PdfUploads[i].text : i \in 1..Len(PdfUploads)}
        \cup UNION {[1..n -> {Blank, 1}] : n \in 0..MaxTextLen}

\* lines 78-88: an empty or blank text returns at once; else the loop begins
ChunkTextBegin ==
    /\ call.fn = "chunk_text"
    /\ call.pc = "called"
    /\ call' = IF Strip(call.text) = <<>>
               THEN [call EXCEPT !.pc = "returned"]
               ELSE [call EXCEPT
                        !.pc = "loop",
                        !.used_overlap = EffectiveOverlap(call.chunk_size, call.overlap)]
    /\ UNCHANGED <<storeVars, reply, indexVars, requests>>

\* a list that takes every trimmed window, the empty ones too
KeptChunks_AlsoEmpty(chunks, chunk) == Append(chunks, chunk)

\* lines 94-95: a window that is empty after trimming is dropped
KeptChunks(chunks, chunk) == IF chunk # <<>> THEN Append(chunks, chunk) ELSE chunks

\* lines 90-100: one pass of the loop, or its exit at the while test
ChunkTextWindow ==
    /\ call.fn = "chunk_text"
    /\ call.pc = "loop"
    /\ LET text_length == Len(call.text)
           end   == Min(call.start + call.chunk_size, text_length)
           chunk == Strip(SubSeq(call.text, call.start + 1, end))
       IN  call' =
               IF call.start >= text_length THEN [call EXCEPT !.pc = "returned"]
               ELSE [call EXCEPT
                        !.chunks = KeptChunks(@, chunk),
                        !.windows = Append(@, [start |-> call.start, end |-> end]),
                        !.pc = IF end >= text_length THEN "returned" ELSE "loop",
                        !.start = IF end >= text_length THEN @
                                  ELSE NextStart(@, end, call.used_overlap)]
    /\ UNCHANGED <<storeVars, reply, indexVars, requests>>

InitChunk ==
    /\ contributions = <<>>
    /\ backlog = <<>>
    /\ reply = NoReply
    /\ searchers = [p \in Searchers |-> IdleSearcher]
    /\ pdf_dir = <<>>
    /\ index_file = NoFile
    /\ meta_file = NoFile
    /\ builder = IdleBuilder
    /\ vsearch = IdleVector
    /\ requests = 0
    /\ call \in {[fn |-> "chunk_text", text |-> text, chunk_size |-> chunk_size,
                   overlap |-> overlap, used_overlap |-> overlap, pc |-> "called",
                   start |-> 0, chunks |-> <<>>, windows |-> <<>>] :
                    text \in ChunkedTexts, chunk_size \in 1..MaxChunkSize,
                    overlap \in 0..MaxOverlap}

NextChunk ==
    \/ ChunkTextBegin
    \/ ChunkTextWindow

SpecChunk == InitChunk /\ [][NextChunk]_vars

\* the call is a sequential loop: it goes on as long as it can
SpecChunkLive == SpecChunk /\ WF_vars(NextChunk)

(***************************************************************************)
(* One question comes in, through the view ask or straight to               *)
(* enhanced_search_with_contributions; the question is drawn at the start.  *)
(***************************************************************************)
\* validate_request_data, lines 88 and 90: the lengths a question may have
MaxQuestionLen == 1000

MinQuestionLen == 3

\* validate_request_data: the question without the blanks around it, and
\* what is wrong with it
validate_request_data(data) ==
    LET question == Strip(data)
    IN  [question |-> question,
         errors |-> IF question = <<>> THEN {"required"}
                    ELSE IF Len(question) > MaxQuestionLen THEN {"too_long"}
                    ELSE IF Len(question) < MinQuestionLen THEN {"too_short"}
                    ELSE {}]

\* the questions that come in, with a word in them or without
Questions == Queries \cup BlankQueries

EntryPoints == {"ask", "enhanced_search_with_contributions"}

\* ask, lines 188-198: the question does not pass the validation
AskRejected ==
    /\ requests < MaxRequests
    /\ call.entry = "ask"
    /\ validate_request_data(call.query).errors # {}
    /\ reply' = [op |-> "ask", success |-> FALSE, error |-> "Validation failed",
                 details |-> validate_request_data(call.query).errors, status |-> 400]
    /\ requests' = requests + 1
    /\ UNCHANGED <<contributions, backlog, searchers, indexVars, call>>

\* ask, lines 200-207: the question that passed goes to the search
AskSearch ==
    /\ call.entry = "ask"
    /\ validate_request_data(call.query).errors = {}
    /\ EnhancedSearch(validate_request_data(call.query).question, MaxK,
                      (3 * SimUnit) \div 10, MaxLimit)

\* the same when the contribution store cannot be reached
AskSearchOutage ==
    /\ call.entry = "ask"
    /\ validate_request_data(call.query).errors = {}
    /\ EnhancedSearchOutage(validate_request_data(call.query).question, MaxK,
                            (3 * SimUnit) \div 10)

\* enhanced_search_with_contributions called with the query as it is
DirectSearch ==
    /\ call.entry = "enhanced_search_with_contributions"
    /\ \E k \in 1..MaxK, similarity_threshold \in Thresholds,
          contribution_limit \in 1..MaxLimit :
           EnhancedSearch(call.query, k, similarity_threshold, contribution_limit)

InitAsk ==
    /\ contributions \in RetrieveStores
    /\ backlog = <<>>
    /\ reply = NoReply
    /\ searchers = [p \in Searchers |-> IdleSearcher]
    /\ pdf_dir = SubSeq(PdfUploads, 1, MaxPdfs)
    /\ \E files \in PersistedChoices :
           index_file = files.index /\ meta_file = files.meta
    /\ builder = IdleBuilder
    /\ vsearch = IdleVector
    /\ requests = 0
    /\ call \in [fn : {"query"}, entry : EntryPoints, query : Questions]

NextAsk == AskRejected \/ AskSearch \/ AskSearchOutage \/ DirectSearch

SpecAsk == InitAsk /\ [][NextAsk]_vars

(***************************************************************************)
(* One request passes AuthenticationMiddleware. A path is the sequence of   *)
(* its "/" and of the names between them; every prefix the middleware       *)
(* tests ends with "/", so a prefix of characters is a prefix of these.     *)
(***************************************************************************)
\* __init__, lines 12-22
public_urls ==
    << <<"/">>,
       <<"/", "login", "/">>,
       <<"/", "create-account", "/">>,
       <<"/", "api", "/", "auth", "/", "login", "/">>,
       <<"/", "api", "/", "auth", "/", "register", "/">>,
       <<"/", "api", "/", "auth", "/", "logout", "/">>,
       <<"/", "api", "/", "auth", "/", "check", "/">>,
       <<"/", "static", "/">>,
       <<"/", "admin", "/">> >>

\* __init__, lines 25-29
always_allowed ==
    << <<"/", "api", "/", "health", "/">>,
       <<"/", "api", "/", "documents", "/">>,
       <<"/", "api", "/", "ask", "/">> >>

\* str.startswith
StartsWith(path, url) ==
    Len(url) <= Len(path) /\ SubSeq(path, 1, Len(url)) = url

\* session.get('user_id') of a session that holds none
NoUser == "None"

RedirectTo(url) == [kind |-> "redirect", to |-> url]

\* self.get_response(request): the request reaches the view
GetResponse(path) == [kind |-> "view", of |-> path]

\* __call__, lines 31-54
AuthenticationMiddleware(user_id, current_path) ==
    LET urls == public_urls \o always_allowed
    IN  IF \E i \in 1..Len(urls) : StartsWith(current_path, urls[i])
        THEN GetResponse(current_path)
        ELSE IF user_id = NoUser /\ current_path = <<"/", "home", "/">>
        THEN RedirectTo(<<"/">>)
        ELSE IF user_id # NoUser
                /\ current_path \in {<<"/">>, <<"/", "login", "/">>,
                                     <<"/", "create-account", "/">>}
        THEN RedirectTo(<<"/", "home", "/">>)
        ELSE GetResponse(current_path)

\* the paths that are requested
RequestPaths ==
    {<<"/">>, <<"/", "home", "/">>, <<"/", "login", "/">>,
     <<"/", "create-account", "/">>, <<"/", "static", "/", "app.js">>,
     <<"/", "admin", "/">>, <<"/", "api", "/", "ask", "/">>,
     <<"/", "api", "/", "auth", "/", "check", "/">>,
     <<"/", "api", "/", "contributions", "/">>, <<"/", "profile", "/">>,
     <<"/", "api", "/", "health", "/">>, <<"/", "logout", "/">>}

\* the user_id of the session that comes with the request
SessionUsers == {NoUser, "u1", "u2"}

\* the middleware answers the request, itself or through the view
MiddlewareCall ==
    /\ call.fn = "AuthenticationMiddleware"
    /\ ~call.done
    /\ call' = [call EXCEPT !.done = TRUE,
                            !.response = AuthenticationMiddleware(call.user_id, call.path)]
    /\ UNCHANGED <<storeVars, reply, indexVars, requests>>

InitAuth ==
    /\ contributions = <<>>
    /\ backlog = <<>>
    /\ reply = NoReply
    /\ searchers = [p \in Searchers |-> IdleSearcher]
    /\ pdf_dir = <<>>
    /\ index_file = NoFile
    /\ meta_file = NoFile
    /\ builder = IdleBuilder
    /\ vsearch = IdleVector
    /\ requests = 0
    /\ call \in [fn : {"AuthenticationMiddleware"}, method : {"GET", "POST"},
                  path : RequestPaths, user_id : SessionUsers,
                  done : {FALSE}, response : {GetResponse(<<>>)}]

NextAuth == MiddlewareCall

SpecAuth == InitAuth /\ [][NextAuth]_vars

(***************************************************************************)
(* The server starts: CoreConfig.auto_index_pdfs looks at the files, and    *)
(* run_indexing_with_progress runs the command embed_pdfs when needed.      *)
(* Whether the newest PDF is younger than the two files is drawn at start.  *)
(***************************************************************************)
\* auto_index_pdfs, lines 50-79: "run", "no_pdfs" (the return of line 76) or
\* "ready"
NeedsIndexing(index_exists, meta_exists, pdf_files, pdf_newer) ==
    IF ~index_exists \/ ~meta_exists THEN "run"
    ELSE IF pdf_files = <<>> THEN "no_pdfs"
    ELSE IF pdf_newer THEN "run"
    ELSE "ready"

\* auto_index_pdfs, lines 49-84
AutoIndexCheck ==
    /\ call.fn = "auto_index_pdfs"
    /\ call.pc = "start"
    /\ LET needs == NeedsIndexing(index_file.exists, meta_file.exists, pdf_dir,
                                  call.pdf_newer)
       IN  call' = [call EXCEPT !.pc = IF needs = "run" THEN "indexing" ELSE "done",
                               !.needs_indexing = (needs = "run")]
    /\ UNCHANGED <<storeVars, reply, indexVars, requests>>

\* run_indexing_with_progress, line 114: call_command('embed_pdfs'), which
\* leaves force at its default
StartupBuildStart ==
    /\ call.fn = "auto_index_pdfs"
    /\ call.pc = "indexing"
    /\ builder.outcome = "none"
    /\ BuildStart(FALSE, MaxBatch)

StartupBuildStep ==
    /\ call.fn = "auto_index_pdfs"
    /\ call.pc = "indexing"
    /\ (BuildSaveIndex \/ BuildSaveMetadata \/ BuildFail)

\* run_indexing_with_progress, lines 116-132: the command is over, with or
\* without an exception
StartupBuildOver ==
    /\ call.fn = "auto_index_pdfs"
    /\ call.pc = "indexing"
    /\ builder.pc = "idle"
    /\ builder.outcome # "none"
    /\ call' = [call EXCEPT !.pc = "done"]
    /\ UNCHANGED <<storeVars, reply, indexVars, requests>>

\* what earlier runs and the administrator left: no file, the two files of
\* a build of the first m uploads, or one of the two only
StartupFiles(n) ==
    {[index |-> NoFile, meta |-> NoFile]} \cup
    UNION {{[index |-> FileOf(generate_embeddings(DocsOf(BuiltFrom(m)), MaxBatch)),
             meta |-> FileOf(BuiltFrom(m))],
            [index |-> FileOf(generate_embeddings(DocsOf(BuiltFrom(m)), MaxBatch)),
             meta |-> NoFile],
            [index |-> NoFile, meta |-> FileOf(BuiltFrom(m))]} :
           m \in {k \in 1..n : BuiltFrom(k) # <<>>}}

InitStartup ==
    /\ contributions = <<>>
    /\ backlog = <<>>
    /\ reply = NoReply
    /\ searchers = [p \in Searchers |-> IdleSearcher]
    /\ \E n \in 0..MaxPdfs :
           /\ pdf_dir = SubSeq(PdfUploads, 1, n)
           /\ \E files \in StartupFiles(n) :
                  index_file = files.index /\ meta_file = files.meta
    /\ builder = IdleBuilder
    /\ vsearch = IdleVector
    /\ requests = 0
    /\ call \in [fn : {"auto_index_pdfs"}, pc : {"start"}, pdf_newer : BOOLEAN,
                  index_existed : {index_file.exists}, meta_existed : {meta_file.exists},
                  needs_indexing : {FALSE}]

NextStartup ==
    \/ AutoIndexCheck
    \/ StartupBuildStart
    \/ StartupBuildStep
    \/ StartupBuildOver

SpecStartup == InitStartup /\ [][NextStartup]_vars

(***************************************************************************)
(* Properties of the contribution store and of the lexical search.         *)
(***************************************************************************)
Results == IF reply.op = "search" THEN reply.results ELSE <<>>

\* C1: every record search_similar_contributions returns is approved; no
\* pending or rejected contribution is returned by any strategy, whatever the
\* store holds.  (The code's full-text strategy also asks for pending records
\* when no record is approved.)
C1_OnlyApprovedReturned ==
    \A i \in 1..Len(Results) : Results[i].is_approved = "approved"

\* how often searcher p saved an increment of record id
RECURSIVE CountOf(_, _)
CountOf(seq, x) ==
    IF seq = <<>> THEN 0
    ELSE (IF Head(seq) = x THEN 1 ELSE 0) + CountOf(Tail(seq), x)

RECURSIVE SavedBy(_, _)
SavedBy(P, id) ==
    IF P = {} THEN 0
    ELSE LET p == CHOOSE q \in P : TRUE
         IN  CountOf(searchers[p].saved, id) + SavedBy(P \ {p}, id)

\* C2: the increment is atomic per record: once the concurrent searches have
\* returned, every record's usage_count is higher than at the start (0) by
\* exactly the number of increments the searches saved for it.
C2_NoLostIncrement ==
    (\A p \in Searchers : searchers[p].pc = "done") =>
        \A id \in Ids : contributions[id].usage_count = SavedBy(Searchers, id)

\* C3, as claimed: approved and rejected are terminal and nothing returns to
\* pending: a record that is approved or rejected keeps its state in every step.
C3_ApprovedRejectedTerminal ==
    [][\A id \in Ids :
          contributions[id].is_approved \in {"approved", "rejected"}
              => contributions'[id].is_approved = contributions[id].is_approved]_vars

\* C3, amended: a record is pending, approved or rejected; it starts pending;
\* no step returns a record to pending, approve-all-pending changes pending
\* records only; single and bulk moderation may still turn an approved record
\* into a rejected one and back.
C3_NeverBackToPending ==
    [][/\ \A id \in Ids :
             /\ contributions[id].is_approved \in {"pending", "approved", "rejected"}
             /\ contributions[id].is_approved # "pending"
                    => contributions'[id].is_approved # "pending"
       /\ \A id \in 1..Len(contributions') :
             id \notin Ids => contributions'[id].is_approved = "pending"
       /\ ApproveAllPending =>
             \A id \in Ids :
                 contributions[id].is_approved # "pending"
                     => contributions'[id] = contributions[id]]_vars

\* a record that a search has used and that moderation has since rejected
C3_Witness ==
    \E id \in Ids :
        contributions[id].is_approved = "rejected" /\ contributions[id].usage_count > 0

\* rows and metadata are aligned: as many rows as entries, and row i is the
\* embedding of the text of entry i
Aligned(rows, metadata) ==
    /\ Len(rows) = Len(metadata)
    /\ \A i \in 1..Len(rows) : rows[i] = Embedding(metadata[i].text)

\* C4: in every reachable state the persisted index and the persisted
\* metadata are positionally aligned (same number of entries, row i belongs
\* to metadata[i]), also between the two writes of a build, and so are the
\* index and the metadata that one vector search loaded.
C4_IndexAlignedWithMetadata ==
    /\ Aligned(index_file.rows, meta_file.rows)
    /\ reply.op = "vector" => Aligned(reply.index, reply.metadata)

\* C5: a build that is not forced while an index file exists ends at once and
\* writes neither file: a run goes on past that test only when it is forced
\* or no index file exists, and only such a run changes the index file or the
\* metadata file.
C5_ExistingIndexKeptUnlessForced ==
    [][/\ (builder.pc = "idle" /\ builder'.pc # "idle") =>
              (builder'.force \/ ~index_file.exists)
       /\ (index_file' # index_file \/ meta_file' # meta_file) =>
              /\ builder.pc \in {"embedded", "index_saved"}
              /\ builder.force \/ ~builder.index_existed]_vars

\* C5 witness: a build was skipped although the directory holds a readable PDF
\* that the persisted metadata does not cover
C5_Witness ==
    /\ builder.outcome = "skipped"
    /\ index_file.exists
    /\ \E i \in 1..Len(pdf_dir) :
           /\ pdf_dir[i].name = "b.pdf"
           /\ \A j \in 1..Len(meta_file.rows) : meta_file.rows[j].filename # "b.pdf"

\* C6, as claimed: with no persisted index the retrieval entry point does not
\* return a success result but the index-not-found failure.
C6_MissingIndexFailsRetrieval ==
    (reply.op = "enhanced" /\ ~index_file.exists) => ~reply.success

\* C6, amended: with no persisted index search_similar_chunks returns
\* success=False with the error that names the missing index and the command
\* to run; enhanced_search_with_contributions returns success=True with empty
\* faiss_results and keeps that failure in original_faiss_result only.
C6_MissingIndexKeptInOriginalResult ==
    (reply.op = "enhanced" /\ ~index_file.exists) =>
        /\ reply.success
        /\ reply.faiss_results = <<>>
        /\ reply.search_metadata.faiss_count = 0
        /\ ~reply.original_faiss_result.success
        /\ reply.original_faiss_result.error = IndexNotFound.error

\* C6 witness: a request without a persisted index that was answered from the
\* contributions
C6_Witness ==
    /\ reply.op = "enhanced"
    /\ ~index_file.exists
    /\ reply.contribution_results # <<>>
    /\ reply.combined_context # <<>>

\* C7: a retrieval that finds no vector hit at or above the threshold, on a
\* store without any approved contribution, returns success=True with empty
\* vector results, empty contribution results and the empty context.
C7_NothingFoundIsEmptySuccess ==
    (/\ reply.op = "enhanced"
     /\ reply.faiss_results = <<>>
     /\ ApprovedIds(contributions, 0) = {}) =>
        /\ reply.success
        /\ reply.contribution_results = <<>>
        /\ reply.combined_context = <<>>

\* C8: every chunk search_similar_chunks returns was read at an id of 0 to
\* len(metadata) - 1 that the index returned, is the metadata record at that
\* id, carries the score of that pair as similarity, and that score is at
\* least similarity_threshold.
C8_OnlyMetadataIdsRead ==
    reply.op = "vector" =>
        \A j \in 1..Len(reply.result.chunks) :
            LET idx   == reply.result.read[j]
                chunk == reply.result.chunks[j]
            IN  /\ idx \in 0..(Len(reply.metadata) - 1)
                /\ chunk.filename = reply.metadata[idx + 1].filename
                /\ chunk.chunk_index = reply.metadata[idx + 1].chunk_index
                /\ chunk.text = reply.metadata[idx + 1].text
                /\ chunk.char_count = reply.metadata[idx + 1].char_count
                /\ chunk.similarity >= reply.similarity_threshold
                /\ \E i \in 1..Len(reply.pairs) :
                       reply.pairs[i].id = idx /\ reply.pairs[i].score = chunk.similarity

\* C9: no contribution id appears twice in the list one call returns,
\* whichever strategies produced its entries.
C9_NoDuplicateIds ==
    \A i, j \in 1..Len(Results) : i # j => Results[i].id # Results[j].id

\* a call whose list holds a result of each of the three strategies
C9_Witness ==
    \A m \in {"similarity", "keyword", "text_index"} :
        \E i \in 1..Len(Results) : Results[i].found_by = m

TopIds(r) == {r.results[i].id : i \in 1..Min(TopUsed, Len(r.results))}

\* the records whose increment failed in the call that made the reply
FailedIds(r) == {r.results[i].id : i \in r.increment_errors \cap (1..Len(r.results))}

\* the step is one call of search_similar_contributions
SearchStep == reply = NoReply /\ reply'.op = "search"

\* C11 as stated: a search that returns n results adds exactly one to the
\* usage_count of each of its first min(3, n) results and leaves every other
\* usage_count as it was.
C11_EveryTopResultCounted ==
    [][SearchStep =>
          /\ Len(contributions') = Len(contributions)
          /\ \A id \in Ids :
                 contributions'[id].usage_count =
                     contributions[id].usage_count
                         + (IF id \in TopIds(reply') THEN 1 ELSE 0)]_vars

\* C11, amended: a search that returns n results adds exactly one to the
\* usage_count of each of its first min(3, n) results whose increment did not
\* fail, and leaves every other usage_count as it was.
C11_TopResultsCountedUnlessFailed ==
    [][SearchStep =>
          /\ Len(contributions') = Len(contributions)
          /\ \A id \in Ids :
                 contributions'[id].usage_count =
                     contributions[id].usage_count
                         + (IF id \in TopIds(reply') \ FailedIds(reply')
                            THEN 1 ELSE 0)]_vars

\* a search returned four results without a failure: the first three records
\* were used once, the fourth was not
C11_Witness ==
    /\ reply.op = "search"
    /\ reply.increment_errors = {}
    /\ Len(reply.results) = TopUsed + 1
    /\ \A i \in 1..TopUsed : contributions[reply.results[i].id].usage_count = 1
    /\ contributions[reply.results[TopUsed + 1].id].usage_count = 0

\* the lists a call can return from a store when no increment fails
SearchAnswers(store, query, limit, min_rating) ==
    UNION {{Truncate(RankedResults(LexicalResults(store, query, limit, order),
                                   store, limit, text), limit) :
               text \in TextChoices(store, min_rating,
                           limit - Len(LexicalResults(store, query, limit, order)))} :
           order \in Enumerations(store, min_rating)}

\* C12: when the increment of one of the top three results fails, the other
\* top results are still incremented by one, and the list returned is one the
\* same call returns when no increment fails.
C12_FailedIncrementDoesNotAbort ==
    [][SearchStep /\ reply'.increment_errors # {} =>
          /\ \A id \in TopIds(reply') \ FailedIds(reply') :
                 contributions'[id].usage_count = contributions[id].usage_count + 1
          /\ reply'.results \in
                 SearchAnswers(contributions, reply'.query, reply'.limit,
                               reply'.min_rating)]_vars

\* the increment of the first result failed; the second and third results
\* were counted all the same and all were returned
C12_Witness ==
    /\ reply.op = "search"
    /\ reply.increment_errors = {1}
    /\ Len(reply.results) >= TopUsed
    /\ contributions[reply.results[1].id].usage_count = 0
    /\ \A i \in 2..TopUsed : contributions[reply.results[i].id].usage_count = 1

\* a record without its count
Uncounted(contrib) == [contrib EXCEPT !.usage_count = 0]

\* C13: a step of the retrieval path creates no record, deletes none, and
\* changes no field of a record but usage_count: approval state, rating,
\* question, answer, keywords and hash stay as they were.
C13_RetrievalChangesOnlyUsageCount ==
    [][/\ Len(contributions') = Len(contributions)
       /\ \A id \in Ids : Uncounted(contributions'[id]) = Uncounted(contributions[id])]_vars

\* the retrieval entry point returned and a record was counted whose question
\* has no keyword, so that save() went through its keyword branch
C13_Witness ==
    /\ reply.op = "enhanced"
    /\ \E id \in Ids :
           /\ contributions[id].usage_count = 1
           /\ contributions[id].question = txt_how_to
           /\ contributions[id].similarity_keywords = NoKeywords
           /\ contributions[id].is_approved = "approved"

(***************************************************************************)
(* Properties of the blended context and of the quality scores.            *)
(***************************************************************************)
\* the context was rendered by the emphasized branch of the blender
Emphasized(context) ==
    context # <<>> /\ context[1].heading = "USER CONTRIBUTIONS (PRIORITIZED):"

\* C14: the context is rendered in emphasized mode exactly when the quality
\* of the contributions exceeds the quality of the vector results and there
\* is at least one contribution, and the prioritized_mongodb flag of the
\* metadata is truthy exactly when the emphasized mode was used.
C14_EmphasizedIffBetterContributions ==
    reply.op = "enhanced" =>
        /\ Emphasized(reply.combined_context) <=>
               /\ assess_mongodb_quality(reply.contribution_results)
                      > assess_faiss_quality(reply.faiss_results)
               /\ reply.contribution_results # <<>>
        /\ Truthy(reply.search_metadata.prioritized_mongodb) <=>
               Emphasized(reply.combined_context)

\* both sources answered and the contributions won: emphasized mode, flagged
C14_Witness ==
    /\ reply.op = "enhanced"
    /\ reply.faiss_results # <<>>
    /\ reply.contribution_results # <<>>
    /\ reply.search_metadata.mongodb_quality > reply.search_metadata.faiss_quality
    /\ Emphasized(reply.combined_context)
    /\ Truthy(reply.search_metadata.prioritized_mongodb)

\* the section renders these contributions, one entry each, in their order
IsContributionSection(section, contributions_found) ==
    /\ Len(section.entries) = Len(contributions_found)
    /\ \A i \in 1..Len(contributions_found) :
           /\ section.entries[i].label
                  \in {"USER CONTRIBUTION", "HIGHLY RELEVANT USER CONTRIBUTION"}
           /\ section.entries[i].number = i
           /\ section.entries[i].question = contributions_found[i].question
           /\ section.entries[i].answer = contributions_found[i].answer

\* the section renders these chunks, one entry each, in their order
IsDocumentSection(section, faiss_chunks) ==
    /\ Len(section.entries) = Len(faiss_chunks)
    /\ \A i \in 1..Len(faiss_chunks) :
           /\ section.entries[i].label = "DOCUMENT"
           /\ section.entries[i].number = i
           /\ section.entries[i].text = faiss_chunks[i].text

\* C15: in either mode the context is the contribution section, present
\* exactly when there are contributions, followed by the document section,
\* present exactly when there are documents; with neither it is empty.
C15_ContributionsThenDocuments ==
    reply.op = "enhanced" =>
        LET context == reply.combined_context
            has_contributions == reply.contribution_results # <<>>
            has_documents     == reply.faiss_results # <<>>
        IN  /\ Len(context) = (IF has_contributions THEN 1 ELSE 0)
                                  + (IF has_documents THEN 1 ELSE 0)
            /\ has_contributions =>
                   IsContributionSection(context[1], reply.contribution_results)
            /\ has_documents =>
                   IsDocumentSection(context[Len(context)], reply.faiss_results)

\* a standard rendering of both sources: two sections, contributions first
C15_Witness ==
    /\ reply.op = "enhanced"
    /\ reply.contribution_results # <<>>
    /\ reply.faiss_results # <<>>
    /\ ~Emphasized(reply.combined_context)
    /\ Len(reply.combined_context) = 2
    /\ reply.combined_context[1].heading = "USER CONTRIBUTIONS AND ENHANCEMENTS:"

\* the value a call of fn returned for these arguments
Returned(fn, args) == call.fn = fn /\ call.done /\ call.args = args

\* two chunks of similarity 0.8 and 0.6
TwoChunks == <<[similarity |-> (4 * SimUnit) \div 5], [similarity |-> (3 * SimUnit) \div 5]>>

SimilaritySum(found) == SeqSum([i \in 1..Len(found) |-> found[i].similarity_score])

RatingSum(found) == SeqSum([i \in 1..Len(found) |-> found[i].rating])

\* the lists with as many contributions as `found` and the same average
\* similarity, but a strictly higher average rating
BetterRated(found) ==
    {other \in FoundLists :
        /\ Len(other) = Len(found)
        /\ SimilaritySum(other) = SimilaritySum(found)
        /\ RatingSum(other) > RatingSum(found)}

\* a non-empty list of contributions was scored
Scored == call.fn = "_assess_mongodb_quality" /\ call.done /\ call.args # <<>>

\* C17 as stated: of two non-empty lists of contributions with the same
\* count and the same average similarity, the one with the strictly higher
\* average rating has the strictly higher contribution quality.
C17_StrictlyIncreasingInRating ==
    Scored => \A other \in BetterRated(call.args) :
                  assess_mongodb_quality(other) > call.value

\* C17, amended: of two such lists the one with the strictly higher average
\* rating has a contribution quality that is no lower, and strictly higher
\* whenever the quality of the other list is below the cap of 1.0.
C17_IncreasingInRatingBelowCap ==
    Scored => \A other \in BetterRated(call.args) :
                  /\ assess_mongodb_quality(other) >= call.value
                  /\ call.value < QualityUnit => assess_mongodb_quality(other) > call.value

\* a list was scored below the cap and a better rated list scores higher
C17_Witness ==
    /\ Scored
    /\ call.value < QualityUnit
    /\ \E other \in BetterRated(call.args) : assess_mongodb_quality(other) > call.value

(***************************************************************************)
(* Properties of the lexical similarity.                                   *)
(***************************************************************************)
\* C18: the phrase component of the similarity of two normalized texts is
\* 0.5 when one is contained in the other, else 0.3 when a substring of more
\* than 10 characters of the shorter one occurs in the longer one, else 0.
C18_PhraseComponent ==
    call.fn = "_calculate_text_similarity" /\ call.done =>
        LET text1   == call.args[1]
            text2   == call.args[2]
            shorter == IF Len(text1) <= Len(text2) THEN text1 ELSE text2
            longer  == IF Len(text1) <= Len(text2) THEN text2 ELSE text1
            long_substrings ==
                {t \in {SubSeq(shorter, i, j) : i \in 1..Len(shorter), j \in 1..Len(shorter)} :
                    Len(t) > 10}
        IN  call.phrase_similarity =
                IF IsSubstring(shorter, longer) THEN SimUnit \div 2
                ELSE IF \E t \in long_substrings : IsSubstring(t, longer)
                THEN (3 * SimUnit) \div 10
                ELSE 0

(***************************************************************************)
(* Properties of chunk_text.                                               *)
(***************************************************************************)
\* the call of chunk_text has returned
ChunkTextReturned == call.fn = "chunk_text" /\ call.pc = "returned"

\* C19: chunk_text returns for every text, every positive chunk size and
\* every positive overlap; an overlap as large as the chunk size is replaced
\* by half the chunk size (a blank text returns before that) and the call
\* returns what the call with that overlap returns.
C19_TerminatesWithClampedOverlap ==
    /\ <>ChunkTextReturned
    /\ [](ChunkTextReturned /\ call.overlap >= call.chunk_size =>
             /\ Strip(call.text) # <<>> => call.used_overlap = call.chunk_size \div 2
             /\ call.chunks =
                    chunk_text(call.text, call.chunk_size, call.chunk_size \div 2))

\* a call with an overlap larger than its chunk size returned after several
\* windows
C19_Witness ==
    /\ ChunkTextReturned
    /\ call.overlap > call.chunk_size
    /\ Len(call.windows) >= 3
    /\ Len(call.chunks) >= 2

\* C20: the starts of the windows increase strictly, each next start is
\* max(previous start + 1, end of the previous window - overlap), and only
\* the last window ends at the end of the text.
C20_StartsIncreaseToTheEnd ==
    call.fn = "chunk_text" =>
        LET windows == call.windows
            n == Len(windows)
        IN  /\ \A i \in 1..(n - 1) :
                   /\ windows[i + 1].start > windows[i].start
                   /\ windows[i + 1].start =
                          Max(windows[i].start + 1, windows[i].end - call.used_overlap)
                   /\ windows[i].end < Len(call.text)
            /\ n > 0 => windows[1].start = 0
            /\ call.pc = "returned" /\ n > 0 => windows[n].end = Len(call.text)
            /\ call.pc = "loop" /\ n > 0 => windows[n].end < Len(call.text)
            /\ call.pc = "returned" /\ Strip(call.text) # <<>> => n > 0

\* a call returned after several windows that overlap
C20_Witness ==
    /\ ChunkTextReturned
    /\ Len(call.windows) >= 3
    /\ call.used_overlap = call.overlap
    /\ call.windows[2].start < call.windows[1].end
    /\ call.windows[Len(call.windows)].end = Len(call.text)

\* the windows of the call that hold more than white space, trimmed, in order
RECURSIVE TrimmedWindows(_, _)
TrimmedWindows(text, windows) ==
    IF windows = <<>> THEN <<>>
    ELSE LET piece == Strip(SubSeq(text, Head(windows).start + 1, Head(windows).end))
         IN  (IF piece # <<>> THEN <<piece>> ELSE <<>>)
                 \o TrimmedWindows(text, Tail(windows))

\* what C21 says of the chunks themselves: each is one window of the text,
\* trimmed and not empty, so no longer than chunk_size; a blank text gives none
ChunksAreTrimmedWindows ==
    /\ call.chunks = TrimmedWindows(call.text, call.windows)
    /\ \A i \in 1..Len(call.chunks) :
           LET chunk == call.chunks[i]
           IN  /\ chunk # <<>>
               /\ Len(chunk) <= call.chunk_size
               /\ ~IsSpaceChar(chunk[1]) /\ ~IsSpaceChar(chunk[Len(chunk)])
               /\ \E w \in 1..Len(call.windows) :
                      /\ call.windows[w].end - call.windows[w].start <= call.chunk_size
                      /\ IsSubstring(chunk, SubSeq(call.text, call.windows[w].start + 1,
                                                   call.windows[w].end))
    /\ Strip(call.text) = <<>> => call.chunks = <<>>

\* C21 as stated: every chunk is a trimmed, non-empty piece of one window and
\* at most chunk_size long, a blank text returns no chunk, and a text longer
\* than chunk_size (and not blank) returns more than one chunk.
C21_LongTextGivesSeveralChunks ==
    ChunkTextReturned =>
        /\ ChunksAreTrimmedWindows
        /\ Len(call.text) > call.chunk_size /\ Strip(call.text) # <<>> =>
               Len(call.chunks) > 1

\* C21, amended: every chunk is a trimmed, non-empty piece of one window and
\* at most chunk_size long, a blank text returns no chunk, and a text longer
\* than chunk_size has more than one window and returns one chunk for each
\* window that holds more than white space.
C21_LongTextGivesSeveralWindows ==
    ChunkTextReturned =>
        /\ ChunksAreTrimmedWindows
        /\ Len(call.text) > call.chunk_size /\ Strip(call.text) # <<>> =>
               Len(call.windows) > 1

\* a text longer than the chunk size returned after several windows of which
\* one was dropped as blank
C21_Witness ==
    /\ ChunkTextReturned
    /\ Len(call.text) > call.chunk_size
    /\ Len(call.windows) >= 3
    /\ Len(call.chunks) >= 2
    /\ Len(call.chunks) < Len(call.windows)

(***************************************************************************)
(* Properties of the build of the index.                                   *)
(***************************************************************************)
\* no file of the pdfs directory gives a chunk
ZeroChunks == \A order \in Listings(pdf_dir) : extract_and_chunk_pdfs(pdf_dir, order, 1) = <<>>

\* the step is a run of the command that ends before the embeddings
BuildEndsEarly == builder.pc = "idle" /\ builder'.pc = "idle" /\ builder' # builder

EntriesOf(metadata, fname) == SelectSeq(metadata, LAMBDA e : e.filename = fname)

\* the metadata are the chunks of the documents that could be read: no entry
\* of a document that could not, every readable document's chunks in chunk
\* order, and the entries of one document next to one another
EntriesOfDocuments(metadata, files) ==
    /\ \A f \in 1..Len(files) :
           LET mine == EntriesOf(metadata, files[f].name)
           IN  IF files[f].readable
               THEN /\ DocsOf(mine) = chunk_text(files[f].text, CHUNK_SIZE, CHUNK_OVERLAP)
                    /\ \A i \in 1..Len(mine) : mine[i].chunk_index = i - 1
               ELSE mine = <<>>
    /\ \A i \in 1..Len(metadata) :
           \E f \in 1..Len(files) : files[f].name = metadata[i].filename
    /\ \A i, j, k \in 1..Len(metadata) :
           i < j /\ j < k /\ metadata[i].filename = metadata[k].filename
               => metadata[j].filename = metadata[i].filename

\* C23: whatever the batch size, a build that goes through embeds the chunks
\* of every document that could be read, document after document and chunk
\* after chunk, with one row per entry, row i the embedding of the text of
\* entry i, the rows being those of one single batch; a document that cannot
\* be read gives no entry and does not end the build; the two files the
\* build then writes hold these rows and these entries.
C23_BatchesGiveOneRowPerChunk ==
    [][ /\ (builder.pc = "idle" /\ builder'.pc = "embedded")
            => /\ Aligned(builder'.vectors, builder'.metadata)
               /\ builder'.vectors = normalize(embed_texts(DocsOf(builder'.metadata)))
               /\ EntriesOfDocuments(builder'.metadata, pdf_dir)
        /\ (builder.pc = "index_saved" /\ builder'.outcome = "built")
            => /\ index_file = FileOf(builder.vectors)
               /\ meta_file' = FileOf(builder.metadata)
               /\ Aligned(index_file'.rows, meta_file'.rows) ]_vars

\* a build in two batches has gone through beside a document that cannot be read
C23_Witness ==
    /\ builder.outcome = "built"
    /\ builder.batch_size = 2
    /\ Len(index_file.rows) = 3
    /\ meta_file.exists /\ Len(meta_file.rows) = 3
    /\ \E f \in 1..Len(pdf_dir) : ~pdf_dir[f].readable

(***************************************************************************)
(* Properties of the questions that come in.                               *)
(***************************************************************************)
\* the search ran: the vector search and the contribution store were called
CollaboratorsInvoked == reply.op = "enhanced"

\* C24: a question that is empty or only blanks once it is normalized is
\* turned down before the vector search or the contribution store is called,
\* through whichever entry point it comes in.
C24_BlankQueryRejectedBeforeSearch ==
    (requests > 0 /\ normalize_text(call.query) = <<>>)
        => (~CollaboratorsInvoked /\ reply.success = FALSE)

\* C25: a request for "/home/" without a user in the session is sent to "/"
\* and does not reach the view, and a request for "/", "/login/" or
\* "/create-account/" with a user in the session is sent to "/home/".
C25_RedirectsByAuthentication ==
    call.fn = "AuthenticationMiddleware" /\ call.done
        => /\ (call.user_id = NoUser /\ call.path = <<"/", "home", "/">>)
                  => call.response = RedirectTo(<<"/">>)
           /\ (call.user_id # NoUser
                   /\ call.path \in {<<"/">>, <<"/", "login", "/">>,
                                      <<"/", "create-account", "/">>})
                  => call.response = RedirectTo(<<"/", "home", "/">>)

(***************************************************************************)
(* Properties of the start of the server.                                  *)
(***************************************************************************)
\* the files are those of a build of the PDFs that are there
RebuiltFrom(files) ==
    \E order \in Listings(files) :
        LET metadata == extract_and_chunk_pdfs(files, order, 1)
        IN  /\ metadata # <<>>
            /\ meta_file = FileOf(metadata)
            /\ index_file.exists
            /\ Aligned(index_file.rows, metadata)

\* C26: when the run at the start of the server finds the index file or the
\* metadata file missing, or a PDF younger than both, and the PDFs hold
\* text, it ends (unless a write fails) with the index and the metadata
\* built anew from the PDFs that are there.
C26_StartupRebuildsWhenNeeded ==
    ( /\ call.fn = "auto_index_pdfs" /\ call.pc = "done"
      /\ ~call.index_existed \/ ~call.meta_existed \/ call.pdf_newer
      /\ \E order \in Listings(pdf_dir) : extract_and_chunk_pdfs(pdf_dir, order, 1) # <<>>
      /\ builder.outcome # "failed" )
        => /\ builder.outcome = "built"
           /\ RebuiltFrom(pdf_dir)

\* the characters two windows have in common, before they are trimmed
SharedBy(a, b) == Max(0, Min(a.end, b.end) - Max(a.start, b.start))

\* the characters of the text (counted from 1) that lie in some window
CoveredBy(windows) ==
    {p \in 1..Len(call.text) :
        \E i \in 1..Len(windows) : windows[i].start < p /\ p <= windows[i].end}

MaxSimilarity(store, id, query) ==
    Max(SimilarityTable[query][store[id].question],
        SimilarityTable[query][store[id].answer])

\* the approved records that pass the threshold of the similarity scan
Passing(store, query, min_rating) ==
    {id \in ApprovedIds(store, min_rating) :
        MaxSimilarity(store, id, query) > SimThreshold}

\* the first limit records of an enumeration that pass
FirstPassing(order, passing, limit) ==
    {order[i] : i \in {k \in 1..Len(order) :
                          /\ order[k] \in passing
                          /\ Cardinality({j \in 1..k : order[j] \in passing}) <= limit}}

ResultIds(results) == {results[i].id : i \in 1..Len(results)}

\* C28: when more approved contributions pass the similarity threshold than
\* limit, a search that reaches the store returns limit results: the first
\* limit that pass, in an enumeration by rating and then usage_count, each
\* with its similarity as score, sorted by falling score.
C28_FirstInRatingOrderAreReturned ==
    [][ ( /\ SearchStep
          /\ Cardinality(Passing(contributions, reply'.query, reply'.min_rating))
                 > reply'.limit
          /\ reply'.found > 0 )
        => LET results == reply'.results
               passing == Passing(contributions, reply'.query, reply'.min_rating)
           IN  /\ Len(results) = reply'.limit
               /\ \E order \in Enumerations(contributions, reply'.min_rating) :
                      ResultIds(results) = FirstPassing(order, passing, reply'.limit)
               /\ \A i \in 1..Len(results) :
                      results[i].similarity_score =
                          MaxSimilarity(contributions, results[i].id, reply'.query)
               /\ \A i, j \in 1..Len(results) :
                      i < j => results[i].similarity_score >= results[j].similarity_score
      ]_vars

\* a search has left out an approved contribution that is more similar to
\* the query than every result it returned
C28_Witness ==
    /\ reply.op = "search"
    /\ Len(reply.results) = reply.limit
    /\ Cardinality(Passing(contributions, reply.query, reply.min_rating)) > reply.limit
    /\ \E id \in ApprovedIds(contributions, reply.min_rating) \ ResultIds(reply.results) :
           \A i \in 1..Len(reply.results) :
               MaxSimilarity(contributions, id, reply.query)
                   > reply.results[i].similarity_score

(***************************************************************************)
(* Properties of an index file left without its metadata file.             *)
(***************************************************************************)
IndexWithoutMetadata == index_file.exists /\ ~meta_file.exists

\* C29: while the index file is there and the metadata file is not, a build
\* that starts either ends at once as skipped or is a forced one, and its
\* start writes neither file; every vector search that comes to read the
\* metadata answers success = False, "No indexed documents found"; and the
\* metadata file comes back only through a forced build (or through the
\* build that wrote this very index and is still on its way).
C29_IndexWithoutMetadataStaysUnusable ==
    [][ /\ (IndexWithoutMetadata /\ builder.pc = "idle" /\ builder' # builder)
            => /\ index_file' = index_file /\ meta_file' = meta_file
               /\ \/ builder'.pc = "idle" /\ builder'.outcome = "skipped"
                  \/ builder'.pc = "embedded" /\ builder'.force
        /\ (IndexWithoutMetadata /\ vsearch.pc = "index_loaded" /\ vsearch'.pc = "idle")
            => /\ reply'.op = "vector"
               /\ reply'.result = NoIndexedDocuments
               /\ ~reply'.result.success
        /\ (IndexWithoutMetadata /\ meta_file'.exists)
            => /\ builder.pc = "index_saved"
               /\ builder.force \/ ~builder.index_existed ]_vars

\* a build was skipped over an index file without metadata, and the search
\* that followed found no indexed documents
C29_Witness ==
    /\ IndexWithoutMetadata
    /\ builder.pc = "idle" /\ builder.outcome = "skipped"
    /\ reply.op = "vector"
    /\ reply.result = NoIndexedDocuments
    /\ reply.index # <<>>

(***************************************************************************)
(* Properties of a retrieval while the contribution store is out of reach. *)
(***************************************************************************)
\* the request got no contribution although approved ones match its query:
\* the store did not answer
AnsweredWithoutStore ==
    /\ reply = NoReply
    /\ reply'.op = "enhanced"
    /\ reply'.contribution_results = <<>>
    /\ Passing(contributions, call.query, 0) # {}

\* C30: a retrieval during which the contribution store fails still
\* succeeds: it returns the vector results alone, counts no contribution,
\* renders the context the standard way, changes no record, and its reply
\* is the one a store without any match would have led to.
C30_StoreOutageGivesVectorResultsOnly ==
    [][ AnsweredWithoutStore
        => LET original == reply'.original_faiss_result
               chunks   == IF original.success THEN original.chunks ELSE <<>>
           IN  /\ reply'.success
               /\ reply'.faiss_results = chunks
               /\ reply'.search_metadata.contribution_count = 0
               /\ ~reply'.search_metadata.has_contributions
               /\ reply'.search_metadata.mongodb_quality = 0
               /\ ~Truthy(reply'.search_metadata.prioritized_mongodb)
               /\ reply'.combined_context = create_combined_context(chunks, <<>>)
               /\ reply' = Blend(original, <<>>)
               /\ contributions' = contributions ]_vars

\* a request answered with chunks of the documents alone, although the store
\* holds an approved contribution that matches the question
C30_Witness ==
    /\ reply.op = "enhanced"
    /\ reply.success
    /\ reply.contribution_results = <<>>
    /\ reply.faiss_results # <<>>
    /\ call.fn = "query"
    /\ Passing(contributions, call.query, 0) # {}
====
